---- MODULE Spec2Model ----
(***************************************************************************)
(* Meeting-Room-Reservation-System: the MeetingRoom aggregate, its         *)
(* Booking entities and TimeSlot value objects.                            *)
(*                                                                         *)
(* Timestamps are the naive datetimes the program builds from its input,   *)
(* modelled as points 0..MaxTime of one time line.  uuid.uuid4() is        *)
(* modelled as a generator that never returns a value it returned before   *)
(* (uuid_counter is the number of ids generated so far).                   *)
(***************************************************************************)
EXTENDS Integers, Sequences, FiniteSets, TLC

\* ---------------------------------------------------------------- bounds
MaxTime == 3
MaxSlotTime == 4
MaxBookingIds == 2
HighCapacity == 22
MaxListLen == 3
MaxLoaded == 2
MaxCalls == 3
MaxRuns == 1

\* ------------------------------------------------------ program constants
MinAttendees == 4
DefaultCapacity == 20
BookingMaxAttendees == 20

\* ------------------------------------------------------------- exceptions
NoError == "none"
InvalidAttendeeCountError == "InvalidAttendeeCountError"
OverlappingBookingError == "OverlappingBookingError"
BookingNotFoundError == "BookingNotFoundError"
InvalidTimeSlotError == "InvalidTimeSlotError"
\* the ValueError of TimeSlot.validate_times, which pydantic raises as its
\* ValidationError (a ValueError)
ValueError == "ValueError"
StorageError == "StorageError"
AttributeError == "AttributeError"
CancellationFailedError == "CancellationFailedError"

VARIABLES
    capacity,       \* MeetingRoom.capacity
    bookings,       \* MeetingRoom.bookings, a list of Booking
    uuid_counter,   \* number of uuid4() values generated so far
    last,           \* the last call on the room: its arguments and its outcome
    removed,        \* history: the booking ids a successful cancel removed
    ts_a, ts_b,     \* two TimeSlot values, the operands of a TimeSlot method
    ts_ret,         \* what the TimeSlot method returned (<<>> before the call)
    objs,           \* the MeetingRoom objects alive, by reference 1..Len(objs)
    cache,          \* JsonMeetingRoomRepository._cache: room id -> reference
    meeting_rooms,  \* InMemoryMeetingRoomRepository._meeting_rooms
    files,          \* the storage directory: <id>.json, .json.tmp, .json.backup
    saved,          \* history: the room state of the last successful save
    repo_last,      \* the last repository call: arguments and outcome
    lock,           \* JsonMeetingRoomRepository._lock: the thread that holds it
    pc,             \* where each thread is in the method it has called
    th,             \* the call and the local variables of each thread
    container,      \* a ServiceContainer, its scopes and the last call on it
    retry           \* the last RetryHandler.with_retry call and its outcome

room_vars == <<capacity, bookings, uuid_counter, last, removed>>
slot_vars == <<ts_a, ts_b, ts_ret>>
repo_vars == <<objs, cache, meeting_rooms, files, saved, repo_last>>
thread_vars == <<lock, pc, th>>
infra_vars == <<container, retry>>

vars == <<capacity, bookings, uuid_counter, last, removed, ts_a, ts_b, ts_ret,
          objs, cache, meeting_rooms, files, saved, repo_last,
          lock, pc, th, container, retry>>

\* ---------------------------------------------------------------- TimeSlot
\* TimeSlot.validate_times: a TimeSlot exists only with start_time < end_time
validate_times(start, end) == ~(start >= end)

\* the TimeSlot values with both times in 0..max
TimeSlotsUpTo(max) ==
    {[start_time |-> p[1], end_time |-> p[2]] :
        p \in {q \in (0..max) \X (0..max) : validate_times(q[1], q[2])}}

TimeSlots == TimeSlotsUpTo(MaxTime)

overlaps_with_closed(self, other) ==
    ~(self.end_time < other.start_time \/ self.start_time > other.end_time)

overlaps_with_other_start_only(self, other) ==
    self.start_time <= other.start_time /\ other.start_time < self.end_time

\* TimeSlot.overlaps_with
overlaps_with(self, other) ==
    ~(self.end_time <= other.start_time \/ self.start_time >= other.end_time)

\* TimeSlot(start_time=start, end_time=end): the exception raised (or none)
\* and the TimeSlot built
TimeSlot(start, end) ==
    IF validate_times(start, end)
    THEN [error |-> NoError,
          slot |-> <<[start_time |-> start, end_time |-> end]>>]
    ELSE [error |-> ValueError, slot |-> <<>>]

\* TimeSlot.__eq__
__eq__(self, other) ==
    self.start_time = other.start_time /\ self.end_time = other.end_time

__lt__by_start(self, other) == self.start_time < other.start_time

\* TimeSlot.__lt__
__lt__(self, other) == self.end_time <= other.start_time

\* TimeSlot.__gt__
__gt__(self, other) == self.start_time >= other.end_time

\* TimeSlot.__le__
__le__(self, other) == self.end_time <= other.start_time

\* TimeSlot.__ge__
__ge__(self, other) == self.start_time >= other.end_time

\* ----------------------------------------------------------------- Booking
Bookers == {"Alice"}

\* Booking.validate_attendees: the bound 20 is written into the validator
validate_attendees(attendees) ==
    MinAttendees <= attendees /\ attendees <= BookingMaxAttendees

uuid4_reused(counter, bks) == Len(bks) + 1

uuid4_constant(counter, bks) == 1

\* Booking.booking_id default_factory: a fresh uuid4
uuid4(counter, bks) == counter + 1

Booking(id, slot, booker, attendees) ==
    [booking_id |-> id, time_slot |-> slot, booker |-> booker,
     attendees |-> attendees]

\* ------------------------------------------------------------- MeetingRoom
Capacities == {MinAttendees, DefaultCapacity, HighCapacity}

\* the attendee counts tried: around every bound the code compares with
Attendees ==
    {MinAttendees - 1, MinAttendees,
     DefaultCapacity, DefaultCapacity + 1, HighCapacity, HighCapacity + 1}

BookingIds == 1..(MaxBookingIds + 1)

attendees_in_range_no_upper(attendees, cap) ==
    MinAttendees <= attendees

\* MeetingRoom.book, line 23: 4 <= attendees <= self.capacity
attendees_in_range(attendees, cap) ==
    MinAttendees <= attendees /\ attendees <= cap

exists_overlap_skip_first(bks, slot) ==
    \E i \in DOMAIN bks : i > 1 /\ overlaps_with(slot, bks[i].time_slot)

\* MeetingRoom.book, lines 26-30: the scan of the existing bookings
exists_overlap(bks, slot) ==
    \E i \in DOMAIN bks : overlaps_with(slot, bks[i].time_slot)

\* MeetingRoom.book: what the call does to a room (cap, bks) when counter
\* uuids have been generated: the exception raised (or none), the bookings
\* afterwards, the booking returned, and the uuids generated afterwards.
book(cap, bks, counter, slot, booker, attendees) ==
    IF ~attendees_in_range(attendees, cap)
    THEN [error |-> InvalidAttendeeCountError, bookings |-> bks,
          returned |-> <<>>, uuid_counter |-> counter]
    ELSE IF exists_overlap(bks, slot)
    THEN [error |-> OverlappingBookingError, bookings |-> bks,
          returned |-> <<>>, uuid_counter |-> counter]
    ELSE LET new_booking == Booking(uuid4(counter, bks), slot, booker, attendees)
         IN  IF ~validate_attendees(attendees)
             THEN [error |-> InvalidAttendeeCountError, bookings |-> bks,
                   returned |-> <<>>, uuid_counter |-> counter + 1]
             ELSE [error |-> NoError, bookings |-> Append(bks, new_booking),
                   returned |-> <<new_booking>>, uuid_counter |-> counter + 1]

remaining_drop_first(bks, booking_id) ==
    IF Len(bks) = 0 THEN bks ELSE Tail(bks)

\* MeetingRoom.cancel, line 39: the bookings whose id is not booking_id
remaining(bks, booking_id) ==
    SelectSeq(bks, LAMBDA b : b.booking_id # booking_id)

\* MeetingRoom.cancel
cancel(bks, booking_id) ==
    LET initial_len == Len(bks)
        kept == remaining(bks, booking_id)
    IN  IF Len(kept) = initial_len
        THEN [error |-> BookingNotFoundError, bookings |-> kept]
        ELSE [error |-> NoError, bookings |-> kept]

\* sorted(): Python's stable sort of <<key, item>> pairs by key, as insertion
\* of each pair after the pairs whose key is not greater
RECURSIVE insert_sorted(_, _)
insert_sorted(pairs, p) ==
    IF pairs = <<>> THEN <<p>>
    ELSE LET n == Len(pairs)
         IN  IF pairs[n][1] <= p[1]
             THEN Append(pairs, p)
             ELSE Append(insert_sorted(SubSeq(pairs, 1, n - 1), p), pairs[n])

RECURSIVE sorted(_)
sorted(pairs) ==
    IF pairs = <<>> THEN <<>>
    ELSE LET n == Len(pairs)
         IN  insert_sorted(sorted(SubSeq(pairs, 1, n - 1)), pairs[n])

list_bookings_by_end(bks) ==
    LET s == sorted([i \in DOMAIN bks |-> <<bks[i].time_slot.end_time, bks[i]>>])
    IN  [i \in DOMAIN s |-> s[i][2]]

\* MeetingRoom.list_bookings: sorted(self.bookings, key=start_time)
list_bookings(bks) ==
    LET s == sorted([i \in DOMAIN bks |-> <<bks[i].time_slot.start_time, bks[i]>>])
    IN  [i \in DOMAIN s |-> s[i][2]]

\* ------------------------------------------------------------------ calls
NoSlot == [start_time |-> 0, end_time |-> 0]

Call(op, slot, booker, attendees, booking_id, error, returned) ==
    [op |-> op, time_slot |-> slot, booker |-> booker, attendees |-> attendees,
     booking_id |-> booking_id, error |-> error, returned |-> returned]

NoCall == Call("none", NoSlot, "", 0, 0, NoError, <<>>)

TimeSlotIdle == ts_a = NoSlot /\ ts_b = NoSlot /\ ts_ret = <<>>

RoomIdle ==
    /\ capacity = DefaultCapacity
    /\ bookings = <<>>
    /\ uuid_counter = 0
    /\ last = NoCall
    /\ removed = {}

Range(seq) == {seq[i] : i \in DOMAIN seq}

\* ------------------------------------------------------------ repositories
RoomIds == {"r1", "r2"}

\* a MeetingRoom value
MeetingRoom(id, cap, bks) == [id |-> id, capacity |-> cap, bookings |-> bks]

\* datetime.isoformat, as pydantic writes a datetime in mode="json"
isoformat(t) == <<"T", t>>

\* the parse of an ISO-8601 string into a datetime
fromisoformat(text) == text[2]

model_dump_without_end_time(room) ==
    [id |-> room.id, capacity |-> room.capacity,
     bookings |-> [i \in DOMAIN room.bookings |->
        [booking_id |-> room.bookings[i].booking_id,
         time_slot |->
            [start_time |-> isoformat(room.bookings[i].time_slot.start_time),
             end_time |-> isoformat(room.bookings[i].time_slot.start_time + 1)],
         booker |-> room.bookings[i].booker,
         attendees |-> room.bookings[i].attendees]]]

\* MeetingRoom.model_dump(mode="json"): the JSON document of a room
model_dump(room) ==
    [id |-> room.id, capacity |-> room.capacity,
     bookings |-> [i \in DOMAIN room.bookings |->
        [booking_id |-> room.bookings[i].booking_id,
         time_slot |->
            [start_time |-> isoformat(room.bookings[i].time_slot.start_time),
             end_time |-> isoformat(room.bookings[i].time_slot.end_time)],
         booker |-> room.bookings[i].booker,
         attendees |-> room.bookings[i].attendees]]]

\* the content of a file: kind "absent" (no such file), "json" (a document
\* of the room schema), "partial" (the beginning of a document), "garbage"
\* (text that is not JSON), "wrong_types" (JSON that is not of the schema)
File(kind, doc) == [kind |-> kind, doc |-> doc]

NoFile == File("absent", <<>>)

JsonFile(doc) == File("json", <<doc>>)

\* MeetingRoom.model_validate of a document of the room schema: the
\* exception raised (or none) and the room built.  A Booking whose fields are
\* valid runs validate_attendees, whose InvalidAttendeeCountError is no
\* ValueError and leaves pydantic as it is; a TimeSlot with end <= start
\* gives pydantic's ValidationError.
model_validate(doc) ==
    LET slot(i) == TimeSlot(fromisoformat(doc.bookings[i].time_slot.start_time),
                            fromisoformat(doc.bookings[i].time_slot.end_time))
    IN  IF \E i \in DOMAIN doc.bookings :
               /\ slot(i).error = NoError
               /\ ~validate_attendees(doc.bookings[i].attendees)
        THEN [error |-> InvalidAttendeeCountError, room |-> <<>>]
        ELSE IF \E i \in DOMAIN doc.bookings : slot(i).error # NoError
        THEN [error |-> ValueError, room |-> <<>>]
        ELSE [error |-> NoError,
              room |-> <<MeetingRoom(doc.id, doc.capacity,
                  [i \in DOMAIN doc.bookings |->
                      Booking(doc.bookings[i].booking_id, slot(i).slot[1],
                              doc.bookings[i].booker,
                              doc.bookings[i].attendees)])>>]

\* the I/O steps of the repository that can fail with an OSError
SaveFaults == {"none", "open", "write", "replace"}

_save_to_file_in_place(fs, room, fault, cleanup_fails) ==
    LET id == room.id
        content == JsonFile(model_dump(room))
    IN  IF fault = "none"
        THEN [error |-> NoError, faults |-> {},
              files |-> [fs EXCEPT !.json[id] = content]]
        ELSE [error |-> StorageError, faults |-> {<<fault, id>>},
              files |-> IF fault = "open" THEN fs
                        ELSE [fs EXCEPT !.json[id] =
                                  File("partial", <<model_dump(room)>>)]]

\* JsonMeetingRoomRepository._save_to_file: the files afterwards and the
\* exception raised, when the I/O step `fault` fails (and, if cleanup_fails,
\* the unlink of the temporary file in the handler too)
_save_to_file(fs, room, fault, cleanup_fails) ==
    LET id == room.id
        content == JsonFile(model_dump(room))
        \* the temporary file when the handler starts
        tmp == IF fault = "open" THEN fs.tmp[id]
               ELSE IF fault = "write"
               THEN File("partial", <<model_dump(room)>>)
               ELSE content
        tmp_exists == tmp.kind # "absent"
    IN  IF fault = "none"
        THEN [error |-> NoError, faults |-> {},
              files |-> [fs EXCEPT !.tmp[id] = NoFile, !.json[id] = content]]
        ELSE [error |-> StorageError,
              faults |-> {<<fault, id>>} \cup
                  (IF tmp_exists /\ cleanup_fails
                   THEN {<<"unlink_tmp", id>>} ELSE {}),
              files |-> [fs EXCEPT !.tmp[id] =
                  IF tmp_exists /\ ~cleanup_fails THEN NoFile ELSE tmp]]

_create_backup_file_once(fs, id, copy_fails) ==
    IF fs.json[id].kind # "absent" /\ fs.backup[id].kind = "absent"
          /\ ~copy_fails
    THEN [fs EXCEPT !.backup[id] = fs.json[id]]
    ELSE fs

\* JsonMeetingRoomRepository._create_backup_file
_create_backup_file(fs, id, copy_fails) ==
    IF fs.json[id].kind # "absent" /\ ~copy_fails
    THEN [fs EXCEPT !.backup[id] = fs.json[id]]
    ELSE fs

\* JsonMeetingRoomRepository._load_from_file: the exception that leaves the
\* method (or none), the room loaded (<<>> for None) and the files afterwards
_load_from_file(fs, id, read_fails, copy_fails) ==
    LET file == fs.json[id]
        failed == [error |-> NoError, room |-> <<>>,
                   files |-> _create_backup_file(fs, id, copy_fails),
                   faults |-> (IF read_fails THEN {<<"read", id>>} ELSE {}) \cup
                              (IF copy_fails THEN {<<"copy", id>>} ELSE {})]
    IN  IF file.kind = "absent"
        THEN [error |-> NoError, room |-> <<>>, files |-> fs, faults |-> {}]
        ELSE IF read_fails THEN failed
        ELSE IF file.kind # "json" THEN failed
        ELSE LET v == model_validate(file.doc[1])
             IN  IF v.error = NoError
                 THEN [error |-> NoError, room |-> v.room, files |-> fs,
                       faults |-> {}]
                 ELSE IF v.error = ValueError THEN failed
                 ELSE [error |-> v.error, room |-> <<>>, files |-> fs,
                       faults |-> {}]

save_caches_first(os, c, fs, ref, fault, cleanup_fails) ==
    LET r == _save_to_file(fs, os[ref], fault, cleanup_fails)
    IN  [error |-> r.error, files |-> r.files, faults |-> r.faults,
         cache |-> [c EXCEPT ![os[ref].id] = ref]]

\* JsonMeetingRoomRepository.save of the room object `ref`
save(os, c, fs, ref, fault, cleanup_fails) ==
    LET r == _save_to_file(fs, os[ref], fault, cleanup_fails)
    IN  [error |-> r.error, files |-> r.files, faults |-> r.faults,
         cache |-> IF r.error = NoError
                   THEN [c EXCEPT ![os[ref].id] = ref] ELSE c]

\* JsonMeetingRoomRepository.find_by_id: a cached room is returned as it is,
\* a room read from its file is a new object and is cached
find_by_id(os, c, fs, id, read_fails, copy_fails) ==
    IF c[id] # 0
    THEN [error |-> NoError, objs |-> os, cache |-> c, files |-> fs,
          found |-> <<c[id]>>, faults |-> {}, loaded |-> FALSE]
    ELSE LET r == _load_from_file(fs, id, read_fails, copy_fails)
             new == Len(os) + 1
         IN  IF r.error = NoError /\ r.room # <<>>
             THEN [error |-> NoError, objs |-> Append(os, r.room[1]),
                   cache |-> [c EXCEPT ![id] = new], files |-> r.files,
                   found |-> <<new>>, faults |-> r.faults, loaded |-> TRUE]
             ELSE [error |-> r.error, objs |-> os, cache |-> c,
                   files |-> r.files, found |-> <<>>, faults |-> r.faults,
                   loaded |-> fs.json[id].kind # "absent"]

\* the three files a room id can have in the storage directory
FileKinds == <<"json", "tmp", "backup">>

\* Path.suffix of <id>.json, <id>.json.tmp and <id>.json.backup
suffix(name) == IF name.kind = "json" THEN ".json" ELSE "." \o name.kind

\* Path.iterdir of the storage directory: the files that exist, the ids in
\* the order the file system happens to list them
iterdir(fs, order) ==
    LET n == Len(FileKinds)
        all == [k \in 1..(Len(order) * n) |->
                   [id |-> order[((k - 1) \div n) + 1],
                    kind |-> FileKinds[((k - 1) % n) + 1]]]
        exists(name) == fs[name.kind][name.id].kind # "absent"
    IN  SelectSeq(all, exists)

\* the loop of find_all over the rest of the listing
RECURSIVE find_all_from(_, _, _, _)
find_all_from(st, names, read_fail_ids, copy_fail_ids) ==
    IF names = <<>> \/ st.error # NoError THEN st
    ELSE LET name == Head(names)
             id == name.id
             r == _load_from_file(st.files, id, id \in read_fail_ids,
                                  id \in copy_fail_ids)
             new == Len(st.objs) + 1
             next ==
                IF suffix(name) # ".json" THEN st
                ELSE IF st.cache[id] # 0
                THEN [st EXCEPT !.result = Append(@, st.cache[id])]
                ELSE IF r.error # NoError THEN [st EXCEPT !.error = r.error]
                ELSE IF r.room = <<>>
                THEN [st EXCEPT !.files = r.files,
                                !.faults = @ \cup r.faults]
                ELSE [st EXCEPT !.objs = Append(@, r.room[1]),
                                !.cache[id] = new,
                                !.result = Append(@, new)]
         IN  find_all_from(next, Tail(names), read_fail_ids, copy_fail_ids)

find_all_cached_only(os, c, fs, order, read_fail_ids, copy_fail_ids) ==
    [error |-> NoError, objs |-> os, cache |-> c, files |-> fs,
     result |-> SelectSeq([k \in 1..Len(order) |-> c[order[k]]],
                          LAMBDA ref : ref # 0),
     faults |-> {}]

\* JsonMeetingRoomRepository.find_all
find_all(os, c, fs, order, read_fail_ids, copy_fail_ids) ==
    find_all_from([error |-> NoError, objs |-> os, cache |-> c, files |-> fs,
                   result |-> <<>>, faults |-> {}],
                  iterdir(fs, order), read_fail_ids, copy_fail_ids)

delete_clears_cache(c, fs, id, unlink_fails) ==
    LET exists == fs.json[id].kind # "absent"
    IN  [error |-> NoError, cache |-> [i \in DOMAIN c |-> 0],
         files |-> IF exists /\ ~unlink_fails
                   THEN [fs EXCEPT !.json[id] = NoFile] ELSE fs,
         faults |-> IF exists /\ unlink_fails
                    THEN {<<"unlink", id>>} ELSE {}]

delete_cache_only(c, fs, id, unlink_fails) ==
    [error |-> NoError, cache |-> [c EXCEPT ![id] = 0], files |-> fs,
     faults |-> {}]

\* JsonMeetingRoomRepository.delete: the cache entry goes, and the file if
\* it exists; an OSError of the unlink is swallowed
delete(c, fs, id, unlink_fails) ==
    LET exists == fs.json[id].kind # "absent"
    IN  [error |-> NoError, cache |-> [c EXCEPT ![id] = 0],
         files |-> IF exists /\ ~unlink_fails
                   THEN [fs EXCEPT !.json[id] = NoFile] ELSE fs,
         faults |-> IF exists /\ unlink_fails
                    THEN {<<"unlink", id>>} ELSE {}]

in_memory_save_if_absent(rooms, os, ref) ==
    IF rooms[os[ref].id] = 0 THEN [rooms EXCEPT ![os[ref].id] = ref]
    ELSE rooms

\* InMemoryMeetingRoomRepository.save
in_memory_save(rooms, os, ref) == [rooms EXCEPT ![os[ref].id] = ref]

\* InMemoryMeetingRoomRepository.find_by_id
in_memory_find_by_id(rooms, id) == IF rooms[id] # 0 THEN <<rooms[id]>> ELSE <<>>

\* InMemoryMeetingRoomRepository.find_all
in_memory_find_all(rooms, order) ==
    SelectSeq([k \in 1..Len(order) |-> rooms[order[k]]], LAMBDA ref : ref # 0)

\* InMemoryMeetingRoomRepository.delete
in_memory_delete(rooms, id) ==
    IF rooms[id] # 0 THEN [rooms EXCEPT ![id] = 0] ELSE rooms

\* a repository call: the repository ("json" or "memory"), the method, its
\* argument (a room id, or the reference of a room and its id), the exception
\* raised, the reference find_by_id returned (<<>> for None), the list
\* find_all returned, the I/O steps that failed, whether a file was read, and
\* what `saved` held for the id when the call began
RepoCall(repo, op, room_id, ref, error, found, result, faults, loaded, before) ==
    [repo |-> repo, op |-> op, room_id |-> room_id, ref |-> ref,
     error |-> error, found |-> found, result |-> result, faults |-> faults,
     loaded |-> loaded, before |-> before]

NoRepoCall == RepoCall("", "none", "", 0, NoError, <<>>, <<>>, {}, FALSE, <<>>)

NoFiles == [json |-> [id \in RoomIds |-> NoFile],
            tmp |-> [id \in RoomIds |-> NoFile],
            backup |-> [id \in RoomIds |-> NoFile]]

NothingSaved == [json |-> [id \in RoomIds |-> <<>>],
                 memory |-> [id \in RoomIds |-> <<>>]]

\* the threads that call the repository
Threads == {1, 2}

\* the local variables of a thread: the method it has called and its
\* arguments, the directory listing find_all still has to visit, the room
\* _load_from_file built, what the method returns, what the method returns
\* and leaves behind when it runs alone from the state in which the thread
\* got the lock, the number of calls the thread has made, and the calls of
\* other threads that were under way when this call began
Locals(op, room_id, ref, order, calls) ==
    [op |-> op, room_id |-> room_id, ref |-> ref, order |-> order,
     names |-> <<>>, room |-> <<>>, found |-> <<>>, result |-> <<>>,
     error |-> NoError, alone |-> <<>>, calls |-> calls, overlap |-> {}]

NoLocals == Locals("none", "", 0, <<>>, 0)

\* ------------------------------------------------------- ServiceContainer
\* The service types that are registered and resolved, and the classes that
\* implement them; parameters is the annotated constructor signature of each
\* class (inspect.signature(implementation.__init__), without self).
ServiceTypes == {"ITestRepository", "ITestService"}
Implementations ==
    {"ConcreteTestRepository", "CircularServiceB", "ConcreteTestService",
     "TransientService"}

\* the classes that are registered for each service type
Implementing(service_type) ==
    IF service_type = "ITestRepository"
    THEN {"ConcreteTestRepository", "CircularServiceB"}
    ELSE {"ConcreteTestService", "TransientService"}

parameters(implementation) ==
    CASE implementation = "ConcreteTestService" -> <<"ITestRepository">>
      [] implementation = "CircularServiceB" -> <<"ITestService">>
      [] OTHER -> <<>>

\* ServiceLifetime
SINGLETON == "singleton"
TRANSIENT == "transient"
SCOPED == "scoped"
ServiceLifetime == {SINGLETON, TRANSIENT, SCOPED}

\* the bounds of the container: the instances it constructs, the scopes that
\* are opened, the resolve calls whose results are remembered and the
\* register calls that are made
MaxInstances == 3
MaxScopes == 2
MaxResolves == 2
MaxRegistrations == 2

DependencyInjectionError == "DependencyInjectionError"
NotRegistered == "is not registered"
RequiresScope == "requires a scope context"
CircularDependency == "Circular dependency detected"

ServiceRegistration(interface, implementation, lifetime) ==
    [interface |-> interface, implementation |-> implementation,
     lifetime |-> lifetime]
NoRegistration == ServiceRegistration("", "", "none")

\* ServiceScope.__init__: no scoped instance, a free lock
ServiceScope == [scoped_instances |-> [s \in ServiceTypes |-> 0], locked |-> FALSE]

\* ServiceContainer.__init__: no registration, no singleton, a free lock;
\* instances are the objects constructed so far (a reference is an index),
\* scopes the ServiceScope objects made by create_scope
NewContainer ==
    [registrations |-> [s \in ServiceTypes |-> NoRegistration],
     singleton_instances |-> [s \in ServiceTypes |-> 0],
     locked |-> FALSE,
     scopes |-> <<>>,
     instances |-> <<>>]

\* how a call ends: it returns an instance, raises DependencyInjectionError,
\* or waits for ever for a Lock that its own thread already holds
Returned(c, instance) ==
    [c |-> c, status |-> "returned", instance |-> instance, error |-> ""]
Raised(c, error) ==
    [c |-> c, status |-> "raised", instance |-> 0, error |-> error]
Blocked(c) ==
    [c |-> c, status |-> "blocked", instance |-> 0, error |-> ""]

\* a mutant of singleton_instance: nothing is ever remembered
singleton_forgotten(c, interface) == 0

\* self._singleton_instances[registration.interface], 0 when it is not in it
singleton_instance(c, interface) == c.singleton_instances[interface]

\* a mutant of scoped_instance: nothing is ever remembered
scoped_forgotten(c, scope, service_type) == 0

\* self._scoped_instances[service_type] of a scope, 0 when it is not in it
scoped_instance(c, scope, service_type) ==
    c.scopes[scope].scoped_instances[service_type]

\* a mutant of in_resolution_stack: no cycle is ever seen
never_in_stack(implementation, resolution_stack) == FALSE

\* if implementation in resolution_stack
in_resolution_stack(implementation, resolution_stack) ==
    implementation \in resolution_stack

\* implementation(*dependencies): a new object
construct(c, implementation, dependencies) ==
    Returned([c EXCEPT !.instances = Append(@,
                  [implementation |-> implementation,
                   dependencies |-> dependencies])],
             Len(c.instances) + 1)

\* leaving a with self._lock block, by return or by exception; a call that
\* blocks inside the block never leaves it
release_container(r) ==
    IF r.status = "blocked" THEN r ELSE [r EXCEPT !.c.locked = FALSE]
release_scope(r, scope) ==
    IF r.status = "blocked" THEN r
    ELSE [r EXCEPT !.c.scopes[scope].locked = FALSE]

remember_singleton(r, interface) ==
    IF r.status = "returned"
    THEN [r EXCEPT !.c.singleton_instances[interface] = r.instance]
    ELSE r
remember_scoped(r, scope, service_type) ==
    IF r.status = "returned"
    THEN [r EXCEPT !.c.scopes[scope].scoped_instances[service_type] = r.instance]
    ELSE r

RECURSIVE _resolve_with_scope(_, _, _)
RECURSIVE _get_or_create_singleton(_, _)
RECURSIVE _create_instance_with_dependencies(_, _, _, _)
RECURSIVE resolve_parameters(_, _, _, _, _, _)
RECURSIVE _resolve_dependency(_, _, _, _)
RECURSIVE scope_resolve(_, _, _)

\* ServiceContainer._create_instance: a fresh resolution stack
_create_instance(c, registration, scope) ==
    _create_instance_with_dependencies(c, registration.implementation, scope, {})

\* ServiceContainer._get_or_create_singleton: with self._lock, create the
\* instance if there is none and return the remembered one; the Lock is not
\* reentrant, so a thread that is already inside the block waits for itself
_get_or_create_singleton(c, registration) ==
    IF c.locked THEN Blocked(c)
    ELSE IF singleton_instance(c, registration.interface) # 0
    THEN Returned(c, singleton_instance(c, registration.interface))
    ELSE release_container(remember_singleton(
             _create_instance([c EXCEPT !.locked = TRUE], registration, 0),
             registration.interface))

\* ServiceScope.resolve: a scoped type is created once per scope under the
\* lock of the scope, any other type goes back to the container
scope_resolve(c, scope, service_type) ==
    LET registration == c.registrations[service_type] IN
    IF registration = NoRegistration THEN Raised(c, NotRegistered)
    ELSE IF registration.lifetime = SCOPED
    THEN IF c.scopes[scope].locked THEN Blocked(c)
         ELSE IF scoped_instance(c, scope, service_type) # 0
         THEN Returned(c, scoped_instance(c, scope, service_type))
         ELSE release_scope(remember_scoped(
                  _create_instance([c EXCEPT !.scopes[scope].locked = TRUE],
                                   registration, scope),
                  scope, service_type), scope)
    ELSE _resolve_with_scope(c, service_type, scope)

\* ServiceContainer._resolve_with_scope; scope 0 is None
_resolve_with_scope(c, service_type, scope) ==
    LET registration == c.registrations[service_type] IN
    IF registration = NoRegistration THEN Raised(c, NotRegistered)
    ELSE IF registration.lifetime = SINGLETON
    THEN _get_or_create_singleton(c, registration)
    ELSE IF registration.lifetime = TRANSIENT
    THEN _create_instance(c, registration, scope)
    ELSE IF scope = 0 THEN Raised(c, RequiresScope)
    ELSE scope_resolve(c, scope, service_type)

\* ServiceContainer._resolve_dependency: as _resolve_with_scope, but a
\* transient dependency is created with the resolution stack of its owner
_resolve_dependency(c, dependency_type, scope, resolution_stack) ==
    LET registration == c.registrations[dependency_type] IN
    IF registration = NoRegistration THEN Raised(c, NotRegistered)
    ELSE IF registration.lifetime = SINGLETON
    THEN _get_or_create_singleton(c, registration)
    ELSE IF registration.lifetime = TRANSIENT
    THEN _create_instance_with_dependencies(c, registration.implementation,
                                            scope, resolution_stack)
    ELSE IF scope = 0 THEN Raised(c, RequiresScope)
    ELSE scope_resolve(c, scope, dependency_type)

\* the loop over the constructor parameters, from parameter i on: each
\* dependency is resolved with a copy of the stack, then the object is made
resolve_parameters(c, implementation, scope, resolution_stack, i, dependencies) ==
    IF i > Len(parameters(implementation))
    THEN construct(c, implementation, dependencies)
    ELSE LET d == _resolve_dependency(c, parameters(implementation)[i], scope,
                                      resolution_stack)
         IN  IF d.status # "returned" THEN d
             ELSE resolve_parameters(d.c, implementation, scope,
                      resolution_stack, i + 1, Append(dependencies, d.instance))

\* ServiceContainer._create_instance_with_dependencies
_create_instance_with_dependencies(c, implementation, scope, resolution_stack) ==
    IF in_resolution_stack(implementation, resolution_stack)
    THEN Raised(c, CircularDependency)
    ELSE resolve_parameters(c, implementation, scope,
             resolution_stack \cup {implementation}, 1, <<>>)

\* ServiceContainer.resolve
resolve(c, service_type) == _resolve_with_scope(c, service_type, 0)

\* register_singleton, register_transient, register_scoped: with self._lock,
\* the registration of the interface is replaced; nothing else is touched
register(c, interface, implementation, lifetime) ==
    IF c.locked THEN Blocked(c)
    ELSE Returned([c EXCEPT !.registrations[interface] =
                      ServiceRegistration(interface, implementation, lifetime)], 0)

\* a call on the container and how it ended
ContainerCall(op, service_type, scope, r) ==
    [op |-> op, service_type |-> service_type, scope |-> scope,
     status |-> r.status, instance |-> r.instance, error |-> r.error]
NoContainerCall ==
    [op |-> "none", service_type |-> "", scope |-> 0, status |-> "",
     instance |-> 0, error |-> ""]

\* one resolve that returned: the type, the scope (0 for the container) and
\* the instance, kept while the registration of the type stays the same
Resolved(service_type, scope, instance) ==
    [service_type |-> service_type, scope |-> scope, instance |-> instance]

\* no container call yet
ContainerIdle ==
    container = [c |-> NewContainer, last |-> NoContainerCall, resolved |-> <<>>,
                 registered |-> 0]

\* ----------------------------------------------------------- RetryHandler
\* The operation handed to with_retry is what its calls do, one after the
\* other: call k returns a value or raises an exception of some class.
MaxAttempts == 3
TypeError == "TypeError"
RuntimeError == "RuntimeError"
ExceptionClass == "Exception"
OperationErrors == {ValueError, TypeError}
RetryExceptions == SUBSET {ExceptionClass, ValueError, TypeError}
Operations == [1..MaxAttempts -> {NoError} \cup OperationErrors]

\* a mutant of is_retryable: every exception is caught and retried
retry_everything(error, retry_exceptions) == TRUE

\* except retry_exceptions as e: the class of e or a base class of it is listed
is_retryable(error, retry_exceptions) ==
    error \in retry_exceptions \/ ExceptionClass \in retry_exceptions

\* how with_retry ends: the calls it made, and either the value of call `by`
\* or the exception it raises, which is the one of call `by` (0: its own)
RetryOutcome(calls, error, by) == [calls |-> calls, error |-> error, by |-> by]

\* for attempt in range(max_attempts), from `attempt` on; last_exception is
\* the call whose exception was caught last, 0 for None
RECURSIVE retry_loop(_, _, _, _, _)
retry_loop(operation, max_attempts, retry_exceptions, attempt, last_exception) ==
    IF attempt >= max_attempts
    THEN IF last_exception # 0
         THEN RetryOutcome(attempt, operation[last_exception], last_exception)
         ELSE RetryOutcome(attempt, RuntimeError, 0)
    ELSE IF operation[attempt + 1] = NoError
    THEN RetryOutcome(attempt + 1, NoError, attempt + 1)
    ELSE IF is_retryable(operation[attempt + 1], retry_exceptions)
    THEN retry_loop(operation, max_attempts, retry_exceptions,
                    attempt + 1, attempt + 1)
    ELSE RetryOutcome(attempt + 1, operation[attempt + 1], attempt + 1)

\* RetryHandler.with_retry
with_retry(operation, max_attempts, retry_exceptions) ==
    retry_loop(operation, max_attempts, retry_exceptions, 0, 0)

\* a with_retry call and how it ended
RetryCall(operation, max_attempts, retry_exceptions, r) ==
    [operation |-> operation, max_attempts |-> max_attempts,
     retry_exceptions |-> retry_exceptions, calls |-> r.calls,
     error |-> r.error, by |-> r.by]
NoRetryCall == RetryCall(<<>>, 0, {}, RetryOutcome(0, NoError, 0))

\* with_retry has not been called
RetryIdle == retry = NoRetryCall

\* nothing has happened in the container or the retry handler
InfraIdle == ContainerIdle /\ RetryIdle

\* no thread has called anything and the lock is free
ThreadsIdle ==
    /\ lock = 0
    /\ pc = [t \in Threads |-> "idle"]
    /\ th = [t \in Threads |-> NoLocals]

\* no repository, or one with an empty storage directory and nothing cached
RepoIdle ==
    /\ objs = <<>>
    /\ cache = [id \in RoomIds |-> 0]
    /\ meeting_rooms = [id \in RoomIds |-> 0]
    /\ files = NoFiles
    /\ saved = NothingSaved
    /\ repo_last = NoRepoCall
    /\ ThreadsIdle
    /\ InfraIdle

\* MeetingRoom(capacity=c): a room with no bookings
Init ==
    /\ capacity \in Capacities
    /\ bookings = <<>>
    /\ uuid_counter = 0
    /\ last = NoCall
    /\ removed = {}
    /\ TimeSlotIdle
    /\ RepoIdle

Book(slot, booker, attendees) ==
    /\ LET r == book(capacity, bookings, uuid_counter, slot, booker, attendees)
       IN  /\ r.uuid_counter <= MaxBookingIds
           /\ bookings' = r.bookings
           /\ uuid_counter' = r.uuid_counter
           /\ last' = Call("book", slot, booker, attendees, 0, r.error, r.returned)
    /\ UNCHANGED <<capacity, removed, ts_a, ts_b, ts_ret>>
    /\ UNCHANGED <<repo_vars, thread_vars, infra_vars>>

Cancel(booking_id) ==
    /\ LET r == cancel(bookings, booking_id)
       IN  /\ bookings' = r.bookings
           /\ last' = Call("cancel", NoSlot, "", 0, booking_id, r.error, <<>>)
           /\ removed' = IF r.error = NoError THEN removed \cup {booking_id}
                         ELSE removed
    /\ UNCHANGED <<capacity, uuid_counter, ts_a, ts_b, ts_ret>>
    /\ UNCHANGED <<repo_vars, thread_vars, infra_vars>>

ListBookings ==
    /\ last' = Call("list_bookings", NoSlot, "", 0, 0, NoError,
                    list_bookings(bookings))
    /\ UNCHANGED <<capacity, bookings, uuid_counter, removed, ts_a, ts_b, ts_ret>>
    /\ UNCHANGED <<repo_vars, thread_vars, infra_vars>>

Next ==
    \/ \E slot \in TimeSlots, booker \in Bookers, attendees \in Attendees :
          Book(slot, booker, attendees)
    \/ \E booking_id \in BookingIds : Cancel(booking_id)
    \/ ListBookings

Spec == Init /\ [][Next]_vars

\* MeetingRoom(bookings=[...]): a room built with any list of bookings, as the
\* constructor accepts it; the bookings are numbered in list order
BookingLists ==
    UNION {{[i \in 1..n |-> Booking(i, f[i], "Alice", MinAttendees)] :
                f \in [1..n -> TimeSlots]} : n \in 0..MaxListLen}

InitList ==
    /\ capacity = DefaultCapacity
    /\ bookings \in BookingLists
    /\ uuid_counter = 0
    /\ last = NoCall
    /\ removed = {}
    /\ TimeSlotIdle
    /\ RepoIdle

NextList == ListBookings

SpecList == InitList /\ [][NextList]_vars

\* two TimeSlot values a and b, and a call of a method of a with b
InitSlot ==
    /\ RoomIdle
    /\ ts_a \in TimeSlotsUpTo(MaxSlotTime)
    /\ ts_b \in TimeSlotsUpTo(MaxSlotTime)
    /\ ts_ret = <<>>
    /\ RepoIdle

OverlapsWith ==
    /\ ts_ret = <<>>
    /\ ts_ret' = <<[op |-> "overlaps_with", value |-> overlaps_with(ts_a, ts_b)]>>
    /\ UNCHANGED <<capacity, bookings, uuid_counter, last, removed, ts_a, ts_b>>
    /\ UNCHANGED <<repo_vars, thread_vars, infra_vars>>

\* TimeSlot(start_time=start, end_time=end) with any two times
CreateTimeSlot(start, end) ==
    /\ ts_ret = <<>>
    /\ ts_ret' = <<[op |-> "TimeSlot",
                    value |-> [start_time |-> start, end_time |-> end,
                               result |-> TimeSlot(start, end)]]>>
    /\ UNCHANGED <<capacity, bookings, uuid_counter, last, removed, ts_a, ts_b>>
    /\ UNCHANGED <<repo_vars, thread_vars, infra_vars>>

\* a == b, a < b, a <= b, a > b, a >= b, and b < a
Compare ==
    /\ ts_ret = <<>>
    /\ ts_ret' = <<[op |-> "compare",
                    value |-> [eq |-> __eq__(ts_a, ts_b),
                               lt |-> __lt__(ts_a, ts_b),
                               le |-> __le__(ts_a, ts_b),
                               gt |-> __gt__(ts_a, ts_b),
                               ge |-> __ge__(ts_a, ts_b),
                               lt_reversed |-> __lt__(ts_b, ts_a)]]>>
    /\ UNCHANGED <<capacity, bookings, uuid_counter, last, removed, ts_a, ts_b>>
    /\ UNCHANGED <<repo_vars, thread_vars, infra_vars>>

NextSlot ==
    \/ OverlapsWith
    \/ \E start, end \in 0..MaxSlotTime : CreateTimeSlot(start, end)
    \/ Compare

SpecSlot == InitSlot /\ [][NextSlot]_vars

\* ------------------------------------------------- repository operations
\* the bookings of a room after the book calls `calls`, the ids drawn from
\* `counter` on
RECURSIVE booked(_, _, _, _)
booked(cap, bks, counter, calls) ==
    IF calls = <<>> THEN bks
    ELSE LET c == Head(calls)
             r == book(cap, bks, counter, c.slot, c.booker, c.attendees)
         IN  booked(cap, r.bookings, r.uuid_counter, Tail(calls))

BookCall(start, end, booker, attendees) ==
    [slot |-> [start_time |-> start, end_time |-> end], booker |-> booker,
     attendees |-> attendees]

\* the rooms the caller has built with MeetingRoom(id=..., capacity=...) and
\* book: two objects for room r1, in different states, and an empty room r2
CallerRooms ==
    << MeetingRoom("r1", DefaultCapacity,
           booked(DefaultCapacity, <<>>, 0,
                  <<BookCall(0, 1, "Alice", MinAttendees)>>)),
       MeetingRoom("r1", HighCapacity,
           booked(HighCapacity, <<>>, 1,
                  <<BookCall(1, 3, "Bob", DefaultCapacity),
                    BookCall(0, 1, "Alice", MinAttendees)>>)),
       MeetingRoom("r2", DefaultCapacity, <<>>) >>

\* the references a call can be given, and the most objects there can be
Refs == 1..Len(CallerRooms)

MaxObjects == Len(CallerRooms) + MaxLoaded

\* what a damaged <id>.json can hold: text that is not JSON, JSON of the
\* wrong types, a document with a time slot that ends when it starts, and a
\* document with a booking of three attendees
CorruptContents(id) ==
    LET doc(start, end, attendees) ==
            [id |-> id, capacity |-> DefaultCapacity,
             bookings |-> <<[booking_id |-> 1,
                             time_slot |-> [start_time |-> isoformat(start),
                                            end_time |-> isoformat(end)],
                             booker |-> "Alice", attendees |-> attendees]>>]
    IN  { File("garbage", <<>>), File("wrong_types", <<>>),
          JsonFile(doc(1, 1, MinAttendees)),
          JsonFile(doc(0, 1, MinAttendees - 1)) }

Orders == { <<"r1", "r2">>, <<"r2", "r1">> }

\* the caller's rooms and two empty repositories
InitRepo ==
    /\ RoomIdle
    /\ TimeSlotIdle
    /\ objs = CallerRooms
    /\ cache = [id \in RoomIds |-> 0]
    /\ meeting_rooms = [id \in RoomIds |-> 0]
    /\ files = NoFiles
    /\ saved = NothingSaved
    /\ repo_last = NoRepoCall
    /\ ThreadsIdle
    /\ InfraIdle

\* JsonMeetingRoomRepository(storage_path) on the same directory: the
\* program starts again, with an empty cache
NewRepository ==
    /\ cache' = [id \in RoomIds |-> 0]
    /\ repo_last' = RepoCall("json", "new", "", 0, NoError, <<>>, <<>>, {},
                             FALSE, <<>>)
    /\ UNCHANGED <<objs, meeting_rooms, files, saved>>
    /\ UNCHANGED <<room_vars, slot_vars, thread_vars, infra_vars>>

\* another program, or the disk, damages a room file; no repository call
\* has been made since
CorruptFile(id, content) ==
    /\ files.json[id].kind # "absent"
    /\ files' = [files EXCEPT !.json[id] = content]
    /\ saved' = [saved EXCEPT !.json[id] = <<>>]
    /\ repo_last' = NoRepoCall
    /\ UNCHANGED <<objs, cache, meeting_rooms>>
    /\ UNCHANGED <<room_vars, slot_vars, thread_vars, infra_vars>>

JsonSave(ref, fault, cleanup_fails) ==
    /\ ref \in 1..Len(objs)
    /\ LET id == objs[ref].id
           r == save(objs, cache, files, ref, fault, cleanup_fails)
       IN  /\ cleanup_fails => <<"unlink_tmp", id>> \in r.faults
           /\ files' = r.files
           /\ cache' = r.cache
           /\ saved' = IF r.error = NoError
                       THEN [saved EXCEPT !.json[id] = <<objs[ref]>>]
                       ELSE saved
           /\ repo_last' = RepoCall("json", "save", id, ref, r.error, <<>>,
                                    <<>>, r.faults, FALSE, saved.json[id])
    /\ UNCHANGED <<objs, meeting_rooms>>
    /\ UNCHANGED <<room_vars, slot_vars, thread_vars, infra_vars>>

JsonFindById(id, read_fails, copy_fails) ==
    LET r == find_by_id(objs, cache, files, id, read_fails, copy_fails)
    IN  /\ Len(r.objs) <= MaxObjects
        /\ read_fails => <<"read", id>> \in r.faults
        /\ copy_fails => <<"copy", id>> \in r.faults
        /\ objs' = r.objs
        /\ cache' = r.cache
        /\ files' = r.files
        /\ repo_last' = RepoCall("json", "find_by_id", id, 0, r.error,
                                 r.found, <<>>, r.faults, r.loaded,
                                 saved.json[id])
        /\ UNCHANGED <<meeting_rooms, saved>>
        /\ UNCHANGED <<room_vars, slot_vars, thread_vars, infra_vars>>

JsonFindAll(order, read_fail_ids, copy_fail_ids) ==
    LET r == find_all(objs, cache, files, order, read_fail_ids, copy_fail_ids)
    IN  /\ Len(r.objs) <= MaxObjects
        /\ r.faults = {<<"read", id>> : id \in read_fail_ids}
                      \cup {<<"copy", id>> : id \in copy_fail_ids}
        /\ objs' = r.objs
        /\ cache' = r.cache
        /\ files' = r.files
        /\ repo_last' = RepoCall("json", "find_all", "", 0, r.error, <<>>,
                                 r.result, r.faults, FALSE, <<>>)
        /\ UNCHANGED <<meeting_rooms, saved>>
        /\ UNCHANGED <<room_vars, slot_vars, thread_vars, infra_vars>>

JsonDelete(id, unlink_fails) ==
    LET r == delete(cache, files, id, unlink_fails)
    IN  /\ unlink_fails => <<"unlink", id>> \in r.faults
        /\ cache' = r.cache
        /\ files' = r.files
        /\ saved' = IF r.error = NoError
                    THEN [saved EXCEPT !.json[id] = <<>>] ELSE saved
        /\ repo_last' = RepoCall("json", "delete", id, 0, r.error, <<>>,
                                 <<>>, r.faults, FALSE, saved.json[id])
        /\ UNCHANGED <<objs, meeting_rooms>>
        /\ UNCHANGED <<room_vars, slot_vars, thread_vars, infra_vars>>

MemorySave(ref) ==
    /\ ref \in 1..Len(objs)
    /\ meeting_rooms' = in_memory_save(meeting_rooms, objs, ref)
    /\ saved' = [saved EXCEPT !.memory[objs[ref].id] = <<objs[ref]>>]
    /\ repo_last' = RepoCall("memory", "save", objs[ref].id, ref, NoError,
                             <<>>, <<>>, {}, FALSE,
                             saved.memory[objs[ref].id])
    /\ UNCHANGED <<objs, cache, files>>
    /\ UNCHANGED <<room_vars, slot_vars, thread_vars, infra_vars>>

MemoryFindById(id) ==
    /\ repo_last' = RepoCall("memory", "find_by_id", id, 0, NoError,
                             in_memory_find_by_id(meeting_rooms, id), <<>>,
                             {}, FALSE, saved.memory[id])
    /\ UNCHANGED <<objs, cache, meeting_rooms, files, saved>>
    /\ UNCHANGED <<room_vars, slot_vars, thread_vars, infra_vars>>

MemoryFindAll(order) ==
    /\ repo_last' = RepoCall("memory", "find_all", "", 0, NoError, <<>>,
                             in_memory_find_all(meeting_rooms, order), {},
                             FALSE, <<>>)
    /\ UNCHANGED <<objs, cache, meeting_rooms, files, saved>>
    /\ UNCHANGED <<room_vars, slot_vars, thread_vars, infra_vars>>

MemoryDelete(id) ==
    /\ meeting_rooms' = in_memory_delete(meeting_rooms, id)
    /\ saved' = [saved EXCEPT !.memory[id] = <<>>]
    /\ repo_last' = RepoCall("memory", "delete", id, 0, NoError, <<>>, <<>>,
                             {}, FALSE, saved.memory[id])
    /\ UNCHANGED <<objs, cache, files>>
    /\ UNCHANGED <<room_vars, slot_vars, thread_vars, infra_vars>>

\* ------------------------------------------- callers that change their rooms
\* the booking ids the caller's rooms hold already
CallerIds == Len(CallerRooms[1].bookings) + Len(CallerRooms[2].bookings)

\* the book calls a caller makes on a room it holds
CallerBookCalls == { BookCall(3, 4, "Alice", MinAttendees) }

InitRepoCaller ==
    /\ capacity = DefaultCapacity
    /\ bookings = <<>>
    /\ uuid_counter = CallerIds
    /\ last = NoCall
    /\ removed = {}
    /\ TimeSlotIdle
    /\ objs = CallerRooms
    /\ cache = [id \in RoomIds |-> 0]
    /\ meeting_rooms = [id \in RoomIds |-> 0]
    /\ files = NoFiles
    /\ saved = NothingSaved
    /\ repo_last = NoRepoCall
    /\ ThreadsIdle
    /\ InfraIdle

\* the room objects a repository refers to or has returned: those passed to
\* a successful save and those find_by_id or find_all built from a file
Shared ==
    (Range(cache) \cup Range(meeting_rooms)
        \cup (Len(CallerRooms) + 1)..Len(objs)) \ {0}

\* room.book(...) by a caller on a room object it passed to save or got
\* from find_by_id or find_all
RoomBook(ref, c) ==
    /\ ref \in Shared
    /\ LET r == book(objs[ref].capacity, objs[ref].bookings, uuid_counter,
                     c.slot, c.booker, c.attendees)
       IN  /\ r.uuid_counter <= CallerIds + MaxBookingIds
           /\ objs' = [objs EXCEPT ![ref].bookings = r.bookings]
           /\ uuid_counter' = r.uuid_counter
    /\ repo_last' = NoRepoCall
    /\ UNCHANGED <<cache, meeting_rooms, files, saved>>
    /\ UNCHANGED <<capacity, bookings, last, removed, slot_vars, thread_vars, infra_vars>>

\* room.cancel(booking_id) of a booking of such a room object
RoomCancel(ref, booking_id) ==
    /\ ref \in Shared
    /\ booking_id \in {objs[ref].bookings[i].booking_id :
                          i \in DOMAIN objs[ref].bookings}
    /\ objs' = [objs EXCEPT ![ref].bookings = cancel(@, booking_id).bookings]
    /\ repo_last' = NoRepoCall
    /\ UNCHANGED <<cache, meeting_rooms, files, saved>>
    /\ UNCHANGED <<room_vars, slot_vars, thread_vars, infra_vars>>

\* the rooms these callers save: their first room, and rooms they got from
\* a repository
Savable == {1} \cup Shared

\* both repositories, with callers that book and cancel on the rooms they
\* share with a repository between the repository calls, and saves whose
\* rename fails; the callers read one room fewer from files than MaxLoaded
NextRepoCaller ==
    \/ \E ref \in 1..MaxObjects : \E c \in CallerBookCalls : RoomBook(ref, c)
    \/ \E ref \in 1..MaxObjects :
          \E booking_id \in 1..(CallerIds + MaxBookingIds) :
             RoomCancel(ref, booking_id)
    \/ NewRepository
    \/ \E ref \in 1..MaxObjects : \E fault \in {"none", "replace"} :
          ref \in Savable /\ JsonSave(ref, fault, FALSE)
    \/ \E id \in RoomIds :
          JsonFindById(id, FALSE, FALSE) /\ Len(objs') < MaxObjects
    \/ \E ref \in 1..MaxObjects : ref \in Savable /\ MemorySave(ref)
    \/ \E id \in RoomIds : MemoryFindById(id)

SpecRepoCaller == InitRepoCaller /\ [][NextRepoCaller]_vars

\* ---------------------------------------------------------------- threads
acquire_unguarded(lk, t) == [acquired |-> TRUE, lock |-> t]

\* `with self._lock:` entered by thread t: the thread goes on when the lock
\* is free, and waits otherwise
acquire(lk, t) ==
    IF lk = 0 THEN [acquired |-> TRUE, lock |-> t]
    ELSE [acquired |-> FALSE, lock |-> lk]

\* what a method returns and leaves behind: the exception, the reference
\* find_by_id returns, the list find_all returns, and the rooms, the cache
\* and the files afterwards
Outcome(error, found, result, os, c, fs) ==
    [error |-> error, found |-> found, result |-> result, objs |-> os,
     cache |-> c, files |-> fs]

\* the outcome of the call `l` when it runs alone from (os, c, fs)
Alone(l, os, c, fs) ==
    IF l.op = "save"
    THEN LET r == save(os, c, fs, l.ref, "none", FALSE)
         IN  Outcome(r.error, <<>>, <<>>, os, r.cache, r.files)
    ELSE IF l.op = "find_by_id"
    THEN LET r == find_by_id(os, c, fs, l.room_id, FALSE, FALSE)
         IN  Outcome(r.error, r.found, <<>>, r.objs, r.cache, r.files)
    ELSE IF l.op = "find_all"
    THEN LET r == find_all(os, c, fs, l.order, {}, {})
         IN  Outcome(r.error, <<>>, r.result, r.objs, r.cache, r.files)
    ELSE LET r == delete(c, fs, l.room_id, FALSE)
         IN  Outcome(r.error, <<>>, <<>>, os, r.cache, r.files)

\* the first step of a method inside its `with self._lock:` block
FirstStep(op) ==
    IF op = "save" THEN "save_write"
    ELSE IF op = "find_by_id" THEN "find_cache"
    ELSE IF op = "find_all" THEN "all_list"
    ELSE "del_cache"

\* the number of calls the threads have made
CallsMade == th[1].calls + th[2].calls

\* thread t calls a method of the repository
ThreadCall(t, op, room_id, ref, order) ==
    /\ pc[t] = "idle"
    /\ CallsMade < MaxCalls
    /\ pc' = [pc EXCEPT ![t] = "acquire"]
    /\ th' = [th EXCEPT ![t] =
                 [Locals(op, room_id, ref, order, @.calls + 1)
                     EXCEPT !.overlap = {<<u, th[u].calls>> :
                                 u \in {v \in Threads \ {t} :
                                            pc[v] # "idle"}}]]
    /\ UNCHANGED <<lock, repo_vars, room_vars, slot_vars, infra_vars>>

\* thread t enters the `with self._lock:` block
Acquire(t) ==
    /\ pc[t] = "acquire"
    /\ acquire(lock, t).acquired
    /\ lock' = acquire(lock, t).lock
    /\ pc' = [pc EXCEPT ![t] = FirstStep(th[t].op)]
    /\ th' = [th EXCEPT ![t].alone = <<Alone(th[t], objs, cache, files)>>]
    /\ UNCHANGED <<repo_vars, room_vars, slot_vars, infra_vars>>

\* _save_to_file: open(temp_path, "w") and the first part of json.dump
SaveWrite(t) ==
    /\ pc[t] = "save_write"
    /\ files' = [files EXCEPT !.tmp[objs[th[t].ref].id] =
                    File("partial", <<model_dump(objs[th[t].ref])>>)]
    /\ pc' = [pc EXCEPT ![t] = "save_close"]
    /\ UNCHANGED <<objs, cache, meeting_rooms, saved, repo_last>>
    /\ UNCHANGED <<lock, th, room_vars, slot_vars, infra_vars>>

\* _save_to_file: the rest of json.dump and the end of the `with open` block
SaveClose(t) ==
    /\ pc[t] = "save_close"
    /\ files' = [files EXCEPT !.tmp[objs[th[t].ref].id] =
                    JsonFile(model_dump(objs[th[t].ref]))]
    /\ pc' = [pc EXCEPT ![t] = "save_replace"]
    /\ UNCHANGED <<objs, cache, meeting_rooms, saved, repo_last>>
    /\ UNCHANGED <<lock, th, room_vars, slot_vars, infra_vars>>

replace_unlinks(fs, id) == [fs EXCEPT !.tmp[id] = NoFile]

\* os.replace(temp_path, file_path): the temporary file takes the place of
\* the room's file in one step
replace(fs, id) ==
    [fs EXCEPT !.json[id] = fs.tmp[id], !.tmp[id] = NoFile]

\* _save_to_file: os.replace(temp_path, file_path)
SaveReplace(t) ==
    /\ pc[t] = "save_replace"
    /\ files' = replace(files, objs[th[t].ref].id)
    /\ saved' = [saved EXCEPT !.json[objs[th[t].ref].id] =
                    <<objs[th[t].ref]>>]
    /\ pc' = [pc EXCEPT ![t] = "save_cache"]
    /\ UNCHANGED <<objs, cache, meeting_rooms, repo_last>>
    /\ UNCHANGED <<lock, th, room_vars, slot_vars, infra_vars>>

\* save: self._cache[meeting_room.id] = meeting_room
SaveCache(t) ==
    /\ pc[t] = "save_cache"
    /\ cache' = [cache EXCEPT ![objs[th[t].ref].id] = th[t].ref]
    /\ pc' = [pc EXCEPT ![t] = "release"]
    /\ UNCHANGED <<objs, files, meeting_rooms, saved, repo_last>>
    /\ UNCHANGED <<lock, th, room_vars, slot_vars, infra_vars>>

\* find_by_id: the look into the cache
FindCache(t) ==
    /\ pc[t] = "find_cache"
    /\ LET ref == cache[th[t].room_id]
       IN  /\ pc' = [pc EXCEPT ![t] = IF ref # 0 THEN "release"
                                       ELSE "find_load"]
           /\ th' = [th EXCEPT ![t].found = IF ref # 0 THEN <<ref>> ELSE <<>>]
    /\ UNCHANGED <<lock, repo_vars, room_vars, slot_vars, infra_vars>>

\* find_by_id: _load_from_file(room_id)
FindLoad(t) ==
    /\ pc[t] = "find_load"
    /\ LET r == _load_from_file(files, th[t].room_id, FALSE, FALSE)
       IN  /\ files' = r.files
           /\ th' = [th EXCEPT ![t].error = r.error, ![t].room = r.room]
           /\ pc' = [pc EXCEPT ![t] = IF r.room # <<>> THEN "find_store"
                                       ELSE "release"]
    /\ UNCHANGED <<objs, cache, meeting_rooms, saved, repo_last>>
    /\ UNCHANGED <<lock, room_vars, slot_vars, infra_vars>>

\* find_by_id: self._cache[room_id] = meeting_room
FindStore(t) ==
    /\ pc[t] = "find_store"
    /\ Len(objs) < MaxObjects
    /\ objs' = Append(objs, th[t].room[1])
    /\ cache' = [cache EXCEPT ![th[t].room_id] = Len(objs) + 1]
    /\ th' = [th EXCEPT ![t].found = <<Len(objs) + 1>>]
    /\ pc' = [pc EXCEPT ![t] = "release"]
    /\ UNCHANGED <<files, meeting_rooms, saved, repo_last>>
    /\ UNCHANGED <<lock, room_vars, slot_vars, infra_vars>>

\* find_all: storage_path.iterdir()
AllList(t) ==
    /\ pc[t] = "all_list"
    /\ th' = [th EXCEPT ![t].names = iterdir(files, th[t].order)]
    /\ pc' = [pc EXCEPT ![t] = "all_next"]
    /\ UNCHANGED <<lock, repo_vars, room_vars, slot_vars, infra_vars>>

\* find_all: one round of the loop, or its end
AllNext(t) ==
    /\ pc[t] = "all_next"
    /\ IF th[t].names = <<>>
       THEN /\ pc' = [pc EXCEPT ![t] = "release"]
            /\ UNCHANGED <<objs, cache, files, th>>
       ELSE LET st == find_all_from(
                         [error |-> NoError, objs |-> objs, cache |-> cache,
                          files |-> files, result |-> th[t].result,
                          faults |-> {}],
                         <<Head(th[t].names)>>, {}, {})
            IN  /\ Len(st.objs) <= MaxObjects
                /\ objs' = st.objs
                /\ cache' = st.cache
                /\ files' = st.files
                /\ th' = [th EXCEPT ![t].names = Tail(@),
                                    ![t].result = st.result,
                                    ![t].error = st.error]
                /\ pc' = [pc EXCEPT ![t] = IF st.error # NoError
                                            THEN "release" ELSE "all_next"]
    /\ UNCHANGED <<meeting_rooms, saved, repo_last>>
    /\ UNCHANGED <<lock, room_vars, slot_vars, infra_vars>>

\* delete: del self._cache[room_id], if it is there
DelCache(t) ==
    /\ pc[t] = "del_cache"
    /\ cache' = [cache EXCEPT ![th[t].room_id] = 0]
    /\ pc' = [pc EXCEPT ![t] = "del_unlink"]
    /\ UNCHANGED <<objs, files, meeting_rooms, saved, repo_last>>
    /\ UNCHANGED <<lock, th, room_vars, slot_vars, infra_vars>>

\* delete: os.unlink(file_path), if the file exists
DelUnlink(t) ==
    /\ pc[t] = "del_unlink"
    /\ files' = [files EXCEPT !.json[th[t].room_id] = NoFile]
    /\ saved' = [saved EXCEPT !.json[th[t].room_id] = <<>>]
    /\ pc' = [pc EXCEPT ![t] = "release"]
    /\ UNCHANGED <<objs, cache, meeting_rooms, repo_last>>
    /\ UNCHANGED <<lock, th, room_vars, slot_vars, infra_vars>>

\* a mutant of release: an exception leaves the block with the lock held
release_unless_raised(lk, t, error) == IF error # NoError THEN lk ELSE 0

\* the end of a `with self._lock:` block: the lock is released, whether the
\* block is left by its last statement or by an exception
release(lk, t, error) == 0

\* thread t leaves the `with self._lock:` block and the method returns or
\* raises
Release(t) ==
    /\ pc[t] = "release"
    /\ lock' = release(lock, t, th[t].error)
    /\ pc' = [pc EXCEPT ![t] = "idle"]
    /\ UNCHANGED <<th, repo_vars, room_vars, slot_vars, infra_vars>>

\* one step of thread t inside a repository method
ThreadStep(t) ==
    \/ Acquire(t)
    \/ SaveWrite(t)
    \/ SaveClose(t)
    \/ SaveReplace(t)
    \/ SaveCache(t)
    \/ FindCache(t)
    \/ FindLoad(t)
    \/ FindStore(t)
    \/ AllList(t)
    \/ AllNext(t)
    \/ DelCache(t)
    \/ DelUnlink(t)
    \/ Release(t)

\* _save_to_file: open, json.dump or os.replace raises OSError; the
\* temporary file is unlinked if it exists (an error of the unlink is
\* ignored) and StorageError leaves save and its `with self._lock:` block
SaveFail(t, cleanup_fails) ==
    /\ pc[t] \in {"save_write", "save_close", "save_replace"}
    /\ files' = IF cleanup_fails THEN files
                ELSE [files EXCEPT !.tmp[objs[th[t].ref].id] = NoFile]
    /\ th' = [th EXCEPT ![t].error = StorageError]
    /\ pc' = [pc EXCEPT ![t] = "release"]
    /\ UNCHANGED <<objs, cache, meeting_rooms, saved, repo_last>>
    /\ UNCHANGED <<lock, room_vars, slot_vars, infra_vars>>

\* the program is started again on the same directory while no call is
\* under way
Restart ==
    /\ \A t \in Threads : pc[t] = "idle"
    /\ NewRepository

\* two threads that call the methods of one file-backed repository
NextThreads ==
    \/ Restart
    \/ \E t \in Threads :
          \/ \E ref \in Refs : ThreadCall(t, "save", "", ref, <<>>)
          \/ \E id \in RoomIds : ThreadCall(t, "find_by_id", id, 0, <<>>)
          \/ \E order \in Orders : ThreadCall(t, "find_all", "", 0, order)
          \/ \E id \in RoomIds : ThreadCall(t, "delete", id, 0, <<>>)
          \/ ThreadStep(t)

SpecThreads == InitRepo /\ [][NextThreads]_vars

\* ------------------------------------------- the two repositories in step
\* the caller makes the same call on a file-backed repository, whose
\* directory was empty at first, and on an in-memory repository
BothSave(ref) ==
    /\ ref \in 1..Len(objs)
    /\ LET id == objs[ref].id
           r == save(objs, cache, files, ref, "none", FALSE)
       IN  /\ files' = r.files
           /\ cache' = r.cache
           /\ meeting_rooms' = in_memory_save(meeting_rooms, objs, ref)
           /\ saved' = [saved EXCEPT !.json[id] = <<objs[ref]>>,
                                     !.memory[id] = <<objs[ref]>>]
           /\ repo_last' = RepoCall("both", "save", id, ref, r.error, <<>>,
                                    <<>>, r.faults, FALSE, saved.json[id])
    /\ UNCHANGED <<objs, room_vars, slot_vars, thread_vars, infra_vars>>

BothFindById(id) ==
    /\ LET r == find_by_id(objs, cache, files, id, FALSE, FALSE)
       IN  /\ Len(r.objs) <= MaxObjects
           /\ objs' = r.objs
           /\ cache' = r.cache
           /\ files' = r.files
           /\ repo_last' = RepoCall("both", "find_by_id", id, 0, r.error,
                                    r.found, <<>>, r.faults, r.loaded,
                                    saved.json[id])
    /\ UNCHANGED <<meeting_rooms, saved, room_vars, slot_vars, thread_vars, infra_vars>>

BothFindAll(order) ==
    /\ LET r == find_all(objs, cache, files, order, {}, {})
       IN  /\ Len(r.objs) <= MaxObjects
           /\ objs' = r.objs
           /\ cache' = r.cache
           /\ files' = r.files
           /\ repo_last' = RepoCall("both", "find_all", "", 0, r.error, <<>>,
                                    r.result, r.faults, FALSE, <<>>)
    /\ UNCHANGED <<meeting_rooms, saved, room_vars, slot_vars, thread_vars, infra_vars>>

BothDelete(id) ==
    /\ LET r == delete(cache, files, id, FALSE)
       IN  /\ cache' = r.cache
           /\ files' = r.files
           /\ meeting_rooms' = in_memory_delete(meeting_rooms, id)
           /\ saved' = [saved EXCEPT !.json[id] = <<>>, !.memory[id] = <<>>]
           /\ repo_last' = RepoCall("both", "delete", id, 0, r.error, <<>>,
                                    <<>>, r.faults, FALSE, saved.json[id])
    /\ UNCHANGED <<objs, room_vars, slot_vars, thread_vars, infra_vars>>

NextBoth ==
    \/ \E ref \in Refs : BothSave(ref)
    \/ \E id \in RoomIds : BothFindById(id)
    \/ \E order \in Orders : BothFindAll(order)
    \/ \E id \in RoomIds : BothDelete(id)
    \/ \E ref \in Refs, c \in CallerBookCalls : RoomBook(ref, c)
    \/ \E ref \in Refs, booking_id \in 1..(CallerIds + MaxBookingIds + 1) :
          RoomCancel(ref, booking_id)

SpecBoth == InitRepoCaller /\ [][NextBoth]_vars

\* ------------------------------------------------------ concurrent callers
\* MeetingRoom.book, lines 23-29: the checks before the booking is made
book_check(cap, bks, slot, attendees) ==
    book(cap, bks, 0, slot, "", attendees).error

\* MeetingRoom.book, lines 31-33: the booking is made and appended to the
\* bookings the room has by then
book_append(bks, counter, slot, booker, attendees) ==
    Append(bks, Booking(uuid4(counter, bks), slot, booker, attendees))

\* the room the callers book, and the slot each caller asks for: the two
\* slots overlap
CallerRoomId == "r1"

CallerCall(t) ==
    IF t = 1 THEN BookCall(1, 3, "Bob", MinAttendees)
    ELSE BookCall(2, 4, "Carol", MinAttendees)

\* the room is saved before the callers start
CallerSetup(ref) ==
    /\ \A t \in Threads : pc[t] = "idle" /\ th[t].calls = 0
    /\ objs[ref].id = CallerRoomId
    /\ JsonSave(ref, "none", FALSE)

\* caller t: meeting_room = repository.find_by_id(room_id)
CallerFind(t) ==
    /\ pc[t] = "idle"
    /\ th[t].calls < MaxRuns
    /\ saved.json[CallerRoomId] # <<>>
    /\ LET r == find_by_id(objs, cache, files, CallerRoomId, FALSE, FALSE)
       IN  /\ Len(r.objs) <= MaxObjects
           /\ objs' = r.objs
           /\ cache' = r.cache
           /\ files' = r.files
           /\ repo_last' = RepoCall("json", "find_by_id", CallerRoomId, 0,
                                    r.error, r.found, <<>>, r.faults,
                                    r.loaded, saved.json[CallerRoomId])
           /\ th' = [th EXCEPT ![t] =
                        [Locals("booking", CallerRoomId, r.found[1], <<>>,
                                @.calls + 1)
                            EXCEPT !.overlap = {<<u, th[u].calls>> :
                                        u \in {v \in Threads \ {t} :
                                                   pc[v] # "idle"}}]]
    /\ pc' = [pc EXCEPT ![t] = "check"]
    /\ UNCHANGED <<meeting_rooms, saved, lock, room_vars, slot_vars, infra_vars>>

\* caller t: meeting_room.book(...) up to the end of the overlap loop
CallerCheck(t) ==
    /\ pc[t] = "check"
    /\ LET room == objs[th[t].ref]
           c == CallerCall(t)
           error == book_check(room.capacity, room.bookings, c.slot,
                               c.attendees)
       IN  /\ th' = [th EXCEPT ![t].error = error]
           /\ pc' = [pc EXCEPT ![t] = IF error = NoError THEN "append"
                                       ELSE "idle"]
    /\ repo_last' = NoRepoCall
    /\ UNCHANGED <<objs, cache, meeting_rooms, files, saved>>
    /\ UNCHANGED <<lock, room_vars, slot_vars, infra_vars>>

\* caller t: meeting_room.book(...) from Booking(...) to its return
CallerAppend(t) ==
    /\ pc[t] = "append"
    /\ LET c == CallerCall(t)
           bks == book_append(objs[th[t].ref].bookings, uuid_counter, c.slot,
                              c.booker, c.attendees)
       IN  /\ objs' = [objs EXCEPT ![th[t].ref].bookings = bks]
           /\ th' = [th EXCEPT ![t].found = <<bks[Len(bks)]>>]
    /\ uuid_counter' = uuid_counter + 1
    /\ pc' = [pc EXCEPT ![t] = "save"]
    /\ repo_last' = NoRepoCall
    /\ UNCHANGED <<cache, meeting_rooms, files, saved>>
    /\ UNCHANGED <<capacity, bookings, last, removed, lock, slot_vars, infra_vars>>

\* caller t: repository.save(meeting_room)
CallerSave(t) ==
    /\ pc[t] = "save"
    /\ LET r == save(objs, cache, files, th[t].ref, "none", FALSE)
       IN  /\ files' = r.files
           /\ cache' = r.cache
           /\ saved' = [saved EXCEPT !.json[CallerRoomId] =
                           <<objs[th[t].ref]>>]
           /\ repo_last' = RepoCall("json", "save", CallerRoomId, th[t].ref,
                                    r.error, <<>>, <<>>, r.faults, FALSE,
                                    saved.json[CallerRoomId])
    /\ pc' = [pc EXCEPT ![t] = "idle"]
    /\ UNCHANGED <<objs, meeting_rooms, th, lock, room_vars, slot_vars, infra_vars>>

\* two callers that book the same room through one repository
NextCallers ==
    \/ \E ref \in Refs : CallerSetup(ref)
    \/ Restart
    \/ \E t \in Threads :
          \/ CallerFind(t)
          \/ CallerCheck(t)
          \/ CallerAppend(t)
          \/ CallerSave(t)

SpecCallers == InitRepoCaller /\ [][NextCallers]_vars

\* two threads that call the methods of one file-backed repository on one
\* room, with saves that can fail at any step; MaxFaultCalls calls are made
\* in all
MaxFaultCalls == 2

NextThreadsFaults ==
    \/ Restart
    \/ \E t \in Threads :
        \/ /\ CallsMade < MaxFaultCalls
           /\ \/ ThreadCall(t, "save", "", 1, <<>>)
              \/ ThreadCall(t, "find_by_id", CallerRoomId, 0, <<>>)
              \/ ThreadCall(t, "find_all", "", 0, <<"r1", "r2">>)
              \/ ThreadCall(t, "delete", CallerRoomId, 0, <<>>)
        \/ ThreadStep(t)
        \/ \E cleanup_fails \in BOOLEAN : SaveFail(t, cleanup_fails)

\* the scheduler runs every thread that can take a step: each statement
\* inside a block returns or raises, and a thread that waits for the lock gets
\* it once the other threads have stopped calling
ThreadsFair ==
    \A t \in Threads :
        WF_vars(ThreadStep(t) \/ \E cleanup_fails \in BOOLEAN :
                                    SaveFail(t, cleanup_fails))

SpecThreadsFaults == InitRepo /\ [][NextThreadsFaults]_vars /\ ThreadsFair

\* --------------------------------------------------------- BookingService
\* the requests tried: BookingRequest lets through those with
\* start_time < end_time, a booker and 4 to 20 attendees
BookingRequests ==
    {[start_time |-> slot.start_time, end_time |-> slot.end_time,
      booker |-> "Dana", attendees |-> n] :
        slot \in TimeSlotsUpTo(MaxSlotTime),
        n \in {MinAttendees, BookingMaxAttendees}}

\* BookingResponse(...)
BookingResponse(booking_id, start_time, end_time, booker, attendees) ==
    [booking_id |-> booking_id, start_time |-> start_time,
     end_time |-> end_time, booker |-> booker, attendees |-> attendees]

\* a mutant of TimeSlot_create: the class method exists and builds the slot
TimeSlot_create_exists(start, end) ==
    TimeSlot(fromisoformat(start), fromisoformat(end))

\* TimeSlot.create(start, end): the class TimeSlot has no attribute `create`
TimeSlot_create(start, end) == [error |-> AttributeError, slot |-> <<>>]

\* MeetingRoom(room_id=room_id): the model has no field room_id and ignores
\* the argument, so the id of the new room is a fresh uuid
NewRoomId == "uuid"

\* create_booking, lines 28-30: the room find_by_id returned, or a new one;
\* the rooms afterwards and the reference of that room
get_or_create(f) ==
    IF f.found = <<>>
    THEN [objs |-> Append(f.objs,
                          MeetingRoom(NewRoomId, DefaultCapacity, <<>>)),
          ref |-> Len(f.objs) + 1]
    ELSE [objs |-> f.objs, ref |-> f.found[1]]

\* what create_booking leaves behind when `error` leaves it
failed_booking(error, f, rooms, counter) ==
    [error |-> error, response |-> <<>>, saves |-> <<>>, objs |-> rooms,
     cache |-> f.cache, files |-> f.files, uuid_counter |-> counter]

\* create_booking, lines 40-49: save and the response
save_and_respond(f, rooms, ref, b, fault) ==
    LET w == save(rooms, f.cache, f.files, ref, fault, FALSE)
        booking == b.returned[1]
    IN  [error |-> w.error,
         response |-> IF w.error # NoError THEN <<>>
                      ELSE <<BookingResponse(booking.booking_id,
                                             booking.time_slot.start_time,
                                             booking.time_slot.end_time,
                                             booking.booker, booking.attendees)>>,
         saves |-> <<ref>>, objs |-> rooms, cache |-> w.cache,
         files |-> w.files, uuid_counter |-> b.uuid_counter]

\* create_booking, lines 35-52: book, save and the response
book_and_save(f, g, counter, slot, request, fault) ==
    LET b == book(g.objs[g.ref].capacity, g.objs[g.ref].bookings, counter,
                  slot, request.booker, request.attendees)
    IN  IF b.error # NoError
        THEN failed_booking(b.error, f, g.objs, b.uuid_counter)
        ELSE save_and_respond(f, [g.objs EXCEPT ![g.ref].bookings = b.bookings],
                              g.ref, b, fault)

\* create_booking after find_by_id has returned f
create_booking_found(f, counter, request, fault) ==
    LET timeslot == TimeSlot_create(isoformat(request.start_time),
                                    isoformat(request.end_time))
    IN  IF f.error # NoError
        THEN failed_booking(f.error, f, f.objs, counter)
        ELSE IF timeslot.error # NoError
        THEN failed_booking(timeslot.error, f, f.objs, counter)
        ELSE book_and_save(f, get_or_create(f), counter, timeslot.slot[1],
                           request, fault)

\* BookingService.create_booking on a file-backed repository: the exception
\* that leaves it (or none), the response, the references of the rooms passed
\* to save, and the rooms, the cache, the files and the uuid counter
\* afterwards; fault is the step of save that would fail, if save is reached
create_booking(os, c, fs, counter, request, fault) ==
    create_booking_found(find_by_id(os, c, fs, CallerRoomId, FALSE, FALSE),
                         counter, request, fault)

\* a caller calls create_booking of a service on the file-backed repository
CreateBooking(request, fault) ==
    LET r == create_booking(objs, cache, files, uuid_counter, request, fault)
    IN  /\ Len(r.objs) <= MaxObjects
        /\ r.uuid_counter <= CallerIds + MaxBookingIds
        /\ objs' = r.objs
        /\ cache' = r.cache
        /\ files' = r.files
        /\ uuid_counter' = r.uuid_counter
        /\ saved' = IF r.saves # <<>> /\ r.error = NoError
                    THEN [saved EXCEPT !.json[CallerRoomId] =
                             <<r.objs[r.saves[1]]>>]
                    ELSE saved
        /\ last' = Call("create_booking",
                        [start_time |-> request.start_time,
                         end_time |-> request.end_time],
                        request.booker, request.attendees, 0, r.error,
                        r.response)
        /\ repo_last' = RepoCall("service", "create_booking", CallerRoomId,
                                 0, r.error, <<>>, r.saves, {fault} \ {"none"},
                                 FALSE, saved.json[CallerRoomId])
        /\ UNCHANGED <<capacity, bookings, removed, meeting_rooms>>
        /\ UNCHANGED <<slot_vars, thread_vars, infra_vars>>

\* meeting_room.cancel_booking(booking_id): MeetingRoom has the method
\* cancel and no attribute `cancel_booking`
MeetingRoom_cancel_booking(bks, booking_id) ==
    [error |-> AttributeError, bookings |-> bks]

\* what cancel_booking leaves behind when `error` leaves it before save
cancellation_failed(error, f) ==
    [error |-> error, saves |-> <<>>, objs |-> f.objs, cache |-> f.cache,
     files |-> f.files]

\* cancel_booking, line 45 and the except clause: save of the room `ref`
save_cancelled(f, rooms, ref) ==
    LET w == save(rooms, f.cache, f.files, ref, "none", FALSE)
    IN  [error |-> IF w.error # NoError THEN CancellationFailedError
                   ELSE NoError,
         saves |-> <<ref>>, objs |-> rooms, cache |-> w.cache,
         files |-> w.files]

\* cancel_booking, lines 40-50: the try block on the room `ref`
cancel_and_save(f, ref, r) ==
    IF r.error # NoError THEN cancellation_failed(CancellationFailedError, f)
    ELSE save_cancelled(f, [f.objs EXCEPT ![ref].bookings = r.bookings], ref)

\* cancel_booking after find_by_id has returned f
cancel_booking_found(f, booking_id) ==
    IF f.error # NoError THEN cancellation_failed(f.error, f)
    ELSE IF f.found = <<>> THEN cancellation_failed(CancellationFailedError, f)
    ELSE IF ~\E i \in DOMAIN f.objs[f.found[1]].bookings :
                f.objs[f.found[1]].bookings[i].booking_id = booking_id
    THEN cancellation_failed(CancellationFailedError, f)
    ELSE cancel_and_save(f, f.found[1],
            MeetingRoom_cancel_booking(f.objs[f.found[1]].bookings,
                                       booking_id))

\* CancellationService.cancel_booking on a file-backed repository: the
\* exception that leaves it (or none), the references of the rooms passed to
\* save, and the rooms, the cache and the files afterwards
cancel_booking(os, c, fs, booking_id) ==
    cancel_booking_found(find_by_id(os, c, fs, CallerRoomId, FALSE, FALSE),
                         booking_id)

\* a caller calls cancel_booking of a service on the file-backed repository
CancelBooking(booking_id) ==
    LET r == cancel_booking(objs, cache, files, booking_id)
    IN  /\ Len(r.objs) <= MaxObjects
        /\ objs' = r.objs
        /\ cache' = r.cache
        /\ files' = r.files
        /\ saved' = IF r.saves # <<>> /\ r.error = NoError
                    THEN [saved EXCEPT !.json[CallerRoomId] =
                             <<r.objs[r.saves[1]]>>]
                    ELSE saved
        /\ last' = Call("cancel_booking", NoSlot, "", 0, booking_id, r.error,
                        <<>>)
        /\ repo_last' = RepoCall("service", "cancel_booking", CallerRoomId,
                                 0, r.error, <<>>, r.saves, {}, FALSE,
                                 saved.json[CallerRoomId])
        /\ UNCHANGED <<capacity, bookings, uuid_counter, removed>>
        /\ UNCHANGED <<meeting_rooms, slot_vars, thread_vars, infra_vars>>

\* the booking service on a repository that holds no main room, or a main
\* room that some program saved before
NextService ==
    \/ NewRepository
    \/ \E ref \in Refs : objs[ref].id = CallerRoomId /\ JsonSave(ref, "none", FALSE)
    \/ \E id \in RoomIds : JsonDelete(id, FALSE)
    \/ \E request \in BookingRequests, fault \in {"none", "replace"} :
          CreateBooking(request, fault)
    \/ \E booking_id \in 1..(CallerIds + 1) : CancelBooking(booking_id)

SpecService == InitRepoCaller /\ [][NextService]_vars

\* the room whose file operations can fail and whose file can be damaged
FaultyIds == {"r1"}

\* the JSON repository when a step of save, or the unlink of delete, fails
NextRepoFaults ==
    \/ NewRepository
    \/ \E ref \in Refs : \E fault \in SaveFaults :
          \E cleanup_fails \in BOOLEAN :
             /\ fault # "none" => objs[ref].id \in FaultyIds
             /\ JsonSave(ref, fault, cleanup_fails)
    \/ \E id \in RoomIds : JsonFindById(id, FALSE, FALSE)
    \/ \E order \in Orders : JsonFindAll(order, {}, {})
    \/ \E id \in RoomIds : \E unlink_fails \in BOOLEAN :
          /\ unlink_fails => id \in FaultyIds
          /\ JsonDelete(id, unlink_fails)

SpecRepoFaults == InitRepo /\ [][NextRepoFaults]_vars

\* the JSON repository when a room file is damaged, or cannot be read or
\* copied
NextRepoDamaged ==
    \/ NewRepository
    \/ \E id \in FaultyIds : \E content \in CorruptContents(id) :
          CorruptFile(id, content)
    \/ \E ref \in Refs : JsonSave(ref, "none", FALSE)
    \/ \E id \in RoomIds : \E read_fails, copy_fails \in BOOLEAN :
          /\ (read_fails \/ copy_fails) => id \in FaultyIds
          /\ JsonFindById(id, read_fails, copy_fails)
    \/ \E order \in Orders :
          \E read_fail_ids, copy_fail_ids \in SUBSET FaultyIds :
             JsonFindAll(order, read_fail_ids, copy_fail_ids)
    \/ \E id \in RoomIds : JsonDelete(id, FALSE)

SpecRepoDamaged == InitRepo /\ [][NextRepoDamaged]_vars

\* the JSON repository when saves fail, room files are damaged or cannot be
\* read, and the unlink of delete fails
NextRepoCache ==
    \/ NewRepository
    \/ \E id \in FaultyIds : \E content \in CorruptContents(id) :
          /\ content.kind \in {"garbage", "json"}
          /\ content.kind = "json" =>
                model_validate(content.doc[1]).error = InvalidAttendeeCountError
          /\ CorruptFile(id, content)
    \/ \E ref \in Refs : \E fault \in {"none", "replace"} :
          /\ fault # "none" => objs[ref].id \in FaultyIds
          /\ JsonSave(ref, fault, FALSE)
    \/ \E id \in RoomIds : \E read_fails \in BOOLEAN :
          /\ read_fails => id \in FaultyIds
          /\ JsonFindById(id, read_fails, FALSE)
    \/ \E order \in Orders : \E read_fail_ids \in SUBSET FaultyIds :
          JsonFindAll(order, read_fail_ids, {})
    \/ \E id \in RoomIds : \E unlink_fails \in BOOLEAN :
          /\ unlink_fails => id \in FaultyIds
          /\ JsonDelete(id, unlink_fails)

SpecRepoCache == InitRepo /\ [][NextRepoCache]_vars

\* both repositories when every I/O step succeeds and no file is damaged
NextRepoOk ==
    \/ NewRepository
    \/ \E ref \in Refs : JsonSave(ref, "none", FALSE)
    \/ \E id \in RoomIds : JsonFindById(id, FALSE, FALSE)
    \/ \E order \in Orders : JsonFindAll(order, {}, {})
    \/ \E id \in RoomIds : JsonDelete(id, FALSE)
    \/ \E ref \in Refs : MemorySave(ref)
    \/ \E id \in RoomIds : MemoryFindById(id)
    \/ \E order \in Orders : MemoryFindAll(order)
    \/ \E id \in RoomIds : MemoryDelete(id)

SpecRepoOk == InitRepo /\ [][NextRepoOk]_vars


\* ------------------------------------------- ServiceContainer: the calls
\* a new container, no with_retry call; no room, time slot or repository
InitInfra == RoomIdle /\ TimeSlotIdle /\ RepoIdle

\* the results remembered for a type are forgotten when it is registered again
forget(resolved, service_type) ==
    SelectSeq(resolved, LAMBDA e : e.service_type # service_type)

remember(resolved, service_type, scope, r) ==
    IF r.status = "returned"
    THEN Append(resolved, Resolved(service_type, scope, r.instance))
    ELSE resolved

\* container.register_singleton / register_transient / register_scoped
Register(interface, implementation, lifetime) ==
    LET r == register(container.c, interface, implementation, lifetime) IN
    /\ container.registered < MaxRegistrations
    /\ container' = [c |-> r.c,
                     registered |-> container.registered + 1,
                     last |-> ContainerCall("register", interface, 0, r),
                     resolved |-> IF r.status = "returned"
                                  THEN forget(container.resolved, interface)
                                  ELSE container.resolved]
    /\ UNCHANGED <<retry, room_vars, slot_vars, repo_vars, thread_vars>>

\* container.resolve(service_type)
Resolve(service_type) ==
    LET r == resolve(container.c, service_type) IN
    /\ Len(container.resolved) < MaxResolves
    /\ Len(r.c.instances) <= MaxInstances
    /\ container' = [c |-> r.c,
                     last |-> ContainerCall("resolve", service_type, 0, r),
                     resolved |-> remember(container.resolved, service_type, 0, r),
                     registered |-> container.registered]
    /\ UNCHANGED <<retry, room_vars, slot_vars, repo_vars, thread_vars>>

\* container.create_scope()
CreateScope ==
    /\ Len(container.c.scopes) < MaxScopes
    /\ container' = [c |-> [container.c EXCEPT !.scopes = Append(@, ServiceScope)],
                     last |-> ContainerCall("create_scope", "",
                                  Len(container.c.scopes) + 1,
                                  Returned(container.c, 0)),
                     resolved |-> container.resolved,
                     registered |-> container.registered]
    /\ UNCHANGED <<retry, room_vars, slot_vars, repo_vars, thread_vars>>

\* scope.resolve(service_type) on one of the scopes
ScopeResolve(scope, service_type) ==
    LET r == scope_resolve(container.c, scope, service_type) IN
    /\ scope \in 1..Len(container.c.scopes)
    /\ Len(container.resolved) < MaxResolves
    /\ Len(r.c.instances) <= MaxInstances
    /\ container' = [c |-> r.c,
                     last |-> ContainerCall("resolve", service_type, scope, r),
                     resolved |-> remember(container.resolved, service_type, scope, r),
                     registered |-> container.registered]
    /\ UNCHANGED <<retry, room_vars, slot_vars, repo_vars, thread_vars>>

NextContainer ==
    \/ \E s \in ServiceTypes, l \in ServiceLifetime :
           \E i \in Implementing(s) : Register(s, i, l)
    \/ \E s \in ServiceTypes : Resolve(s)
    \/ CreateScope
    \/ \E k \in 1..MaxScopes, s \in ServiceTypes : ScopeResolve(k, s)

SpecContainer == InitInfra /\ [][NextContainer]_vars

\* ------------------------------------------------- RetryHandler: the call
WithRetry(operation, max_attempts, retry_exceptions) ==
    /\ retry' = RetryCall(operation, max_attempts, retry_exceptions,
                          with_retry(operation, max_attempts, retry_exceptions))
    /\ UNCHANGED <<container, room_vars, slot_vars, repo_vars, thread_vars>>

NextRetry ==
    \E operation \in Operations, max_attempts \in 0..MaxAttempts,
       retry_exceptions \in RetryExceptions :
        WithRetry(operation, max_attempts, retry_exceptions)

SpecRetry == InitInfra /\ [][NextRetry]_vars

\* ================================================================= claims
\* the half-open intervals [a.start_time, a.end_time) and
\* [b.start_time, b.end_time) have a point in common
Intersects(a, b) ==
    \E t \in a.start_time..(a.end_time - 1) :
        b.start_time <= t /\ t < b.end_time


Ids(bks) == {bks[i].booking_id : i \in DOMAIN bks}

SlotTaken(bks, slot) == \E i \in DOMAIN bks : Intersects(slot, bks[i].time_slot)

\* C1: after any sequence of book and cancel calls on a room that started
\* with no bookings, no two bookings of the room have intersecting time slots.
C1_NoOverlappingBookings ==
    \A i, j \in DOMAIN bookings :
        i # j => ~Intersects(bookings[i].time_slot, bookings[j].time_slot)

\* C1 witness: two bookings are in the room and a book call has just failed
\* on an overlap.
C1_Witness ==
    /\ Len(bookings) >= 2
    /\ last.op = "book"
    /\ last.error = OverlappingBookingError

\* C2: a book call with attendees < 4 or attendees > capacity fails with
\* InvalidAttendeeCount and leaves the bookings list as it was, whatever the
\* time slot and the existing bookings.
C2_InvalidAttendeesRejected ==
    [][(last'.op = "book"
          /\ (last'.attendees < 4 \/ last'.attendees > capacity))
        => (last'.error = InvalidAttendeeCountError /\ bookings' = bookings)]_vars

\* C2 witness: a book call with more attendees than a capacity below 20 has
\* failed on a room that holds a booking, for a slot that was free.
C2_Witness ==
    /\ last.op = "book"
    /\ last.attendees > capacity
    /\ last.attendees <= BookingMaxAttendees
    /\ last.error = InvalidAttendeeCountError
    /\ Len(bookings) >= 1
    /\ ~SlotTaken(bookings, last.time_slot)

\* C3: a book call with 4 <= attendees <= capacity and a time slot that
\* intersects an existing booking fails with OverlappingBooking and leaves
\* the bookings list as it was.
C3_OverlapAllOrNothing ==
    [][(last'.op = "book"
          /\ 4 <= last'.attendees /\ last'.attendees <= capacity
          /\ SlotTaken(bookings, last'.time_slot))
        => (last'.error = OverlappingBookingError /\ bookings' = bookings)]_vars

\* C3 witness: such a call has failed on a room with two bookings, the slot
\* intersecting the one booked first and starting before it.
C3_Witness ==
    /\ last.op = "book"
    /\ last.error = OverlappingBookingError
    /\ Len(bookings) = 2
    /\ Intersects(last.time_slot, bookings[1].time_slot)
    /\ last.time_slot.start_time < bookings[1].time_slot.start_time

\* the list bks without its k-th entry
Without(bks, k) == SubSeq(bks, 1, k - 1) \o SubSeq(bks, k + 1, Len(bks))

C5_BookingLifeCycle ==
    [][/\ \A id \in Ids(bookings') \ Ids(bookings) :
              /\ last'.op = "book"
              /\ last'.error = NoError
              /\ last'.returned[1].booking_id = id
              /\ id \notin removed
       /\ \A id \in Ids(bookings) \ Ids(bookings') :
              /\ last'.op = "cancel"
              /\ last'.error = NoError
              /\ last'.booking_id = id
              /\ id \in removed'
       /\ (last'.op = "cancel" /\ last'.booking_id \in removed)
              => (last'.error = BookingNotFoundError /\ bookings' = bookings)
       /\ removed' \cap Ids(bookings') = {}]_vars

\* C5 witness: an id was removed, another booking was made afterwards, and a
\* second cancel of the removed id has failed.
C5_Witness ==
    /\ last.op = "cancel"
    /\ last.booking_id \in removed
    /\ last.error = BookingNotFoundError
    /\ \E i \in DOMAIN bookings : bookings[i].booking_id > last.booking_id

\* C6: when book(S2) has failed with OverlappingBooking and the cancel of a
\* booking B then succeeds and leaves no booking that intersects S2, the same
\* book(S2) call succeeds and the booking it returns is in the room.
C6_CancelFreesSlot ==
    [][(last.op = "book" /\ last.error = OverlappingBookingError
          /\ last'.op = "cancel" /\ last'.error = NoError
          /\ ~SlotTaken(bookings', last.time_slot))
        => LET r == book(capacity, bookings', uuid_counter', last.time_slot,
                         last.booker, last.attendees)
           IN  /\ r.error = NoError
               /\ r.returned[1] \in Range(r.bookings)]_vars

\* C7: for every free time slot, book succeeds and appends the booking it
\* returns for each attendees value in [4, capacity], and fails with
\* InvalidAttendeeCount for each value outside it.
C7_AttendeeBoundIsCapacity ==
    [][(last'.op = "book" /\ ~SlotTaken(bookings, last'.time_slot)) =>
        IF 4 <= last'.attendees /\ last'.attendees <= capacity
        THEN /\ last'.error = NoError
             /\ Len(last'.returned) = 1
             /\ last'.returned[1].attendees = last'.attendees
             /\ last'.returned[1].time_slot = last'.time_slot
             /\ bookings' = Append(bookings, last'.returned[1])
        ELSE /\ last'.error = InvalidAttendeeCountError
             /\ bookings' = bookings]_vars

\* C8: the booking ids in the room are pairwise distinct, and the booking a
\* successful book returns has an id that no other booking of the room has.
C8_UniqueBookingIds ==
    /\ \A i, j \in DOMAIN bookings :
           i # j => bookings[i].booking_id # bookings[j].booking_id
    /\ (last.op = "book" /\ last.error = NoError)
           => Cardinality({i \in DOMAIN bookings :
                  bookings[i].booking_id = last.returned[1].booking_id}) = 1

\* C8 witness: a book has succeeded on a room that already held a booking
\* and has appended the booking it returned.
C8_Witness ==
    /\ last.op = "book"
    /\ last.error = NoError
    /\ Len(bookings) >= 2
    /\ last.returned[1] = bookings[Len(bookings)]

\* C9: list_bookings returns a permutation of the bookings in ascending order
\* of time slot start, bookings of equal start in insertion order, and leaves
\* the bookings list as it was.
C9_ListBookingsSorted ==
    [][last'.op = "list_bookings" =>
        LET r == last'.returned
            n == Len(bookings)
        IN  /\ bookings' = bookings
            /\ Len(r) = n
            /\ \E p \in [1..n -> 1..n] :
                  /\ \A i, j \in 1..n : i # j => p[i] # p[j]
                  /\ \A i \in 1..n : r[i] = bookings[p[i]]
                  /\ \A i, j \in 1..n : i < j =>
                        /\ r[i].time_slot.start_time <= r[j].time_slot.start_time
                        /\ (r[i].time_slot.start_time = r[j].time_slot.start_time
                               => p[i] < p[j])]_vars

\* C9 witness: a list of three bookings, two of them with the same start,
\* was listed in an order other than the insertion order.
C9_Witness ==
    /\ last.op = "list_bookings"
    /\ Len(bookings) >= 3
    /\ last.returned # bookings
    /\ \E i, j \in DOMAIN bookings :
           /\ i # j
           /\ bookings[i].time_slot.start_time = bookings[j].time_slot.start_time
           /\ bookings[i].time_slot.end_time # bookings[j].time_slot.end_time

\* C10: a.overlaps_with(b) is true exactly when the half-open intervals of a
\* and b have a point in common; slots that only share an endpoint do not
\* overlap.
C10_OverlapIsHalfOpenIntersection ==
    (ts_ret # <<>> /\ ts_ret[1].op = "overlaps_with") =>
        /\ ts_ret[1].value <=> Intersects(ts_a, ts_b)
        /\ (ts_a.end_time = ts_b.start_time \/ ts_b.end_time = ts_a.start_time)
               => ts_ret[1].value = FALSE

\* C10 witness: overlaps_with has returned false for two slots that share an
\* endpoint.
C10_Witness ==
    /\ ts_ret # <<>>
    /\ ts_ret[1].op = "overlaps_with"
    /\ ts_ret[1].value = FALSE
    /\ ts_a.end_time = ts_b.start_time

\* C11: a.overlaps_with(b) equals b.overlaps_with(a) for all valid slots.
C11_OverlapSymmetric ==
    (ts_ret # <<>> /\ ts_ret[1].op = "overlaps_with")
        => ts_ret[1].value = overlaps_with(ts_b, ts_a)

\* C11 witness: overlaps_with has returned true for two different slots, the
\* argument starting and ending before the receiver.
C11_Witness ==
    /\ ts_ret # <<>>
    /\ ts_ret[1].op = "overlaps_with"
    /\ ts_ret[1].value = TRUE
    /\ ts_b.start_time < ts_a.start_time
    /\ ts_b.end_time < ts_a.end_time

\* C12: creating a TimeSlot with end <= start fails with the domain error
\* InvalidTimeSlot, and no TimeSlot with start >= end is ever built.
C12_InvalidTimeSlotRejected ==
    (ts_ret # <<>> /\ ts_ret[1].op = "TimeSlot") =>
        LET v == ts_ret[1].value
        IN  /\ v.end_time <= v.start_time
                => (v.result.error = InvalidTimeSlotError /\ v.result.slot = <<>>)
            /\ v.result.slot # <<>>
                => v.result.slot[1].start_time < v.result.slot[1].end_time

AllSlots == TimeSlotsUpTo(MaxSlotTime)

\* C13 as stated: a total order: exactly one of a < b, a == b, b < a holds;
\* < is transitive; a <= b exactly when a < b or a == b; and a slot that ends
\* at or before the start of the other is less than it.
C13_TotalOrder ==
    (ts_ret # <<>> /\ ts_ret[1].op = "compare") =>
        LET v == ts_ret[1].value
        IN  /\ \/ (v.lt /\ ~v.eq /\ ~v.lt_reversed)
               \/ (~v.lt /\ v.eq /\ ~v.lt_reversed)
               \/ (~v.lt /\ ~v.eq /\ v.lt_reversed)
            /\ \A c \in AllSlots : (v.lt /\ __lt__(ts_b, c)) => __lt__(ts_a, c)
            /\ v.le <=> (v.lt \/ v.eq)
            /\ ts_a.end_time <= ts_b.start_time => v.lt

\* C13 as amended: a < b holds exactly when a ends at or before the start of
\* b; at most one of a < b, a == b, b < a holds, and none exactly when a and b
\* are different slots with a common point; < is transitive; a <= b holds
\* exactly when a < b.
C13_PrecedenceOrder ==
    (ts_ret # <<>> /\ ts_ret[1].op = "compare") =>
        LET v == ts_ret[1].value
        IN  /\ v.lt <=> (ts_a.end_time <= ts_b.start_time)
            /\ ~(v.lt /\ v.eq) /\ ~(v.lt /\ v.lt_reversed)
            /\ ~(v.eq /\ v.lt_reversed)
            /\ (~v.lt /\ ~v.eq /\ ~v.lt_reversed)
                   <=> (ts_a # ts_b /\ Intersects(ts_a, ts_b))
            /\ \A c \in AllSlots : (v.lt /\ __lt__(ts_b, c)) => __lt__(ts_a, c)
            /\ v.le <=> v.lt

\* C13 witness: two different slots with a common point were compared and
\* neither is less than the other.
C13_Witness ==
    /\ ts_ret # <<>>
    /\ ts_ret[1].op = "compare"
    /\ ts_a # ts_b
    /\ ~ts_ret[1].value.lt /\ ~ts_ret[1].value.lt_reversed
    /\ ts_a.start_time < ts_b.start_time


\* the last call was `op` on the repository `repo`
RepoCalled(repo, op) == repo_last.repo = repo /\ repo_last.op = op

C15_SaveIdempotentUpsert ==
    [][ LET call == repo_last'
            id == call.room_id
            ref == call.ref
        IN  /\ (call.op = "save" /\ call.repo = "json"
                   /\ call.error = NoError) =>
                  /\ objs' = objs
                  /\ cache' = [cache EXCEPT ![id] = ref]
                  /\ files' = [files EXCEPT
                                  !.json[id] = JsonFile(model_dump(objs[ref]))]
                  /\ (cache[id] = ref /\ call.before = <<objs[ref]>>) =>
                        (cache' = cache /\ files' = files)
            /\ (call.op = "save" /\ call.repo = "memory") =>
                  /\ objs' = objs
                  /\ meeting_rooms' = [meeting_rooms EXCEPT ![id] = ref]
                  /\ (meeting_rooms[id] = ref) =>
                        meeting_rooms' = meeting_rooms
            /\ (call.op = "find_by_id" /\ call.before # <<>>) =>
                  /\ call.error = NoError
                  /\ call.found # <<>>
                  /\ objs'[call.found[1]] = call.before[1]
      ]_vars

\* a save has replaced another state of the same room in the file-backed
\* repository, and the in-memory repository holds the room too
C15_Witness ==
    /\ RepoCalled("json", "save")
    /\ repo_last.error = NoError
    /\ repo_last.before # <<>>
    /\ repo_last.before[1] # objs[repo_last.ref]
    /\ cache[repo_last.room_id] = repo_last.ref
    /\ meeting_rooms[repo_last.room_id] = repo_last.ref

\* C16: when every save and delete has succeeded, find_all of either
\* repository returns exactly one room for each id that was saved and not
\* deleted since, in the state of its last save, and no other room; as the
\* rooms to return are fixed by the last save of each id alone, the order of
\* the saves does not matter.
C16_FindAllReturnsSavedRooms ==
    \A repo \in {"json", "memory"} :
        RepoCalled(repo, "find_all") =>
            LET stored == {id \in RoomIds : saved[repo][id] # <<>>}
                result == repo_last.result
            IN  /\ repo_last.error = NoError
                /\ Len(result) = Cardinality(stored)
                /\ \A id \in stored : \E i \in DOMAIN result :
                      objs[result[i]] = saved[repo][id][1]
                /\ \A i \in DOMAIN result : objs[result[i]].id \in stored

\* find_all of a new repository instance has read a room from its file and
\* returned two rooms
C16_Witness ==
    /\ RepoCalled("json", "find_all")
    /\ Len(repo_last.result) = 2
    /\ \E i \in DOMAIN repo_last.result : repo_last.result[i] \notin Refs
    /\ \E i \in DOMAIN repo_last.result :
          Len(objs[repo_last.result[i]].bookings) = 2

\* the ids of the rooms find_all returns from the state (os, c, fs), in
\* whatever order the directory is listed
FoundIds(os, c, fs) ==
    UNION { LET r == find_all(os, c, fs, order, {}, {})
            IN  {r.objs[r.result[i]].id : i \in DOMAIN r.result}
            : order \in Orders }

\* C17 as stated: after delete(id) returns on the file-backed repository, the
\* cache entry and the file of the id are gone, find_by_id(id) returns absent
\* and find_all contains no room with that id.
C17_DeleteRemovesCacheAndFile ==
    RepoCalled("json", "delete") =>
        LET id == repo_last.room_id
        IN  /\ cache[id] = 0
            /\ files.json[id] = NoFile
            /\ find_by_id(objs, cache, files, id, FALSE, FALSE).found = <<>>
            /\ id \notin FoundIds(objs, cache, files)

\* C17 amended: delete(id) returns without an error and the cache entry of
\* the id is gone; the file is gone exactly when its unlink did not fail (an
\* OSError of the unlink is swallowed and leaves the file, and every other
\* file, as it was).  Once the id has neither a file nor a cache entry it
\* stays so, find_by_id(id) returns absent and find_all returns no room with
\* that id, until a save of that id succeeds.
C17_DeleteUnlessUnlinkFails ==
    [][ LET call == repo_last'
        IN  /\ (call.repo = "json" /\ call.op = "delete") =>
                  LET id == call.room_id
                      unlink_failed == <<"unlink", id>> \in call.faults
                  IN  /\ call.error = NoError
                      /\ objs' = objs
                      /\ cache' = [cache EXCEPT ![id] = 0]
                      /\ unlink_failed => files' = files
                      /\ ~unlink_failed =>
                            files' = [files EXCEPT !.json[id] = NoFile]
            /\ \A id \in RoomIds :
                  (/\ files.json[id] = NoFile
                   /\ cache[id] = 0
                   /\ ~(call.op = "save" /\ call.room_id = id
                           /\ call.error = NoError)) =>
                      /\ files'.json[id] = NoFile
                      /\ cache'[id] = 0
                      /\ (call.op = "find_by_id" /\ call.room_id = id) =>
                            call.found = <<>>
                      /\ call.op = "find_all" =>
                            \A i \in DOMAIN call.result :
                                objs'[call.result[i]].id # id
      ]_vars

\* a saved room was deleted, its file with it
C17_Witness ==
    /\ RepoCalled("json", "delete")
    /\ repo_last.before # <<>>
    /\ repo_last.faults = {}
    /\ files.json[repo_last.room_id] = NoFile
    /\ cache[repo_last.room_id] = 0

\* C18: delete of an id that is not stored (the file-backed repository has
\* neither a file nor a cache entry for it, the dictionary of the in-memory
\* repository has no entry for it) raises nothing and changes nothing: the
\* rooms, the cache or dictionary and every file are as they were.
C18_DeleteOfUnknownIdIsNoOp ==
    [][ LET call == repo_last'
            id == call.room_id
        IN  /\ (call.repo = "json" /\ call.op = "delete"
                   /\ files.json[id] = NoFile /\ cache[id] = 0) =>
                  /\ call.error = NoError
                  /\ UNCHANGED <<objs, cache, files, meeting_rooms>>
            /\ (call.repo = "memory" /\ call.op = "delete"
                   /\ meeting_rooms[id] = 0) =>
                  /\ call.error = NoError
                  /\ UNCHANGED <<objs, cache, files, meeting_rooms>>
      ]_vars

\* delete was called on the file-backed repository for an id that neither
\* repository stores, while the other room was stored in both
C18_Witness ==
    /\ RepoCalled("json", "delete")
    /\ repo_last.before = <<>>
    /\ saved.memory[repo_last.room_id] = <<>>
    /\ files.json[repo_last.room_id] = NoFile
    /\ \E id \in RoomIds :
          /\ cache[id] # 0
          /\ files.json[id] # NoFile
          /\ meeting_rooms[id] # 0

\* the last call was a save of the file-backed repository in which an I/O
\* step failed
SaveFailed(call) ==
    call.repo = "json" /\ call.op = "save" /\ call.faults # {}

Unreadable(file) == file.kind \in {"garbage", "wrong_types"}

Damaged(file) ==
    \/ file.kind \in {"garbage", "wrong_types", "partial"}
    \/ file.kind = "json" /\ model_validate(file.doc[1]).error # NoError

\* C21: whatever a room file holds (text that is not JSON, wrong field types,
\* a booking with an attendee count out of range, a time slot with
\* end <= start), find_by_id and find_all raise nothing; find_by_id of an id
\* whose file is damaged and not cached returns absent, and find_all returns
\* no room for such an id and a room for every other id that has a cached
\* room or an intact file.
C21_CorruptionNeverRaises ==
    [][ LET call == repo_last'
            damaged(id) == cache[id] = 0 /\ Damaged(files.json[id])
            found_ids == {objs'[call.result[i]].id : i \in DOMAIN call.result}
        IN  (call.repo = "json" /\ call.op \in {"find_by_id", "find_all"}
                /\ call.faults = {}) =>
                /\ call.error = NoError
                /\ (call.op = "find_by_id" /\ damaged(call.room_id)) =>
                      call.found = <<>>
                /\ call.op = "find_all" =>
                      \A id \in RoomIds :
                          /\ damaged(id) => id \notin found_ids
                          /\ (files.json[id] # NoFile /\ ~damaged(id)) =>
                                id \in found_ids
      ]_vars

\* C22: cache coherence.  Between repository calls, every room in the cache
\* of the file-backed repository has the state (id, capacity, bookings) that
\* the file of its id holds, also after callers have booked or cancelled on
\* rooms they passed to save or got from find_by_id, and after a failed save.
C22_CacheEqualsFile ==
    \A id \in RoomIds :
        cache[id] # 0 =>
            files.json[id] = JsonFile(model_dump(objs[cache[id]]))

\* the state of the room find_by_id(id) of the file-backed repository
\* returns from (os, c, fs): <<>> for absent
FoundState(os, c, fs, id) ==
    LET r == find_by_id(os, c, fs, id, FALSE, FALSE)
    IN  IF r.found = <<>> THEN <<>> ELSE <<r.objs[r.found[1]]>>

\* the states of the rooms find_all of the file-backed repository returns
FoundStates(os, c, fs) ==
    UNION { LET r == find_all(os, c, fs, order, {}, {})
            IN  {r.objs[r.result[i]] : i \in DOMAIN r.result}
            : order \in Orders }

\* the state of the room find_by_id(id) of the in-memory repository returns
MemoryFoundState(os, rooms, id) ==
    LET found == in_memory_find_by_id(rooms, id)
    IN  IF found = <<>> THEN <<>> ELSE <<os[found[1]]>>

\* C23: only save persists.  A book or cancel on a room that was passed to
\* save or returned by find_by_id changes nothing of what find_by_id and
\* find_all of either repository return.
C23_OnlySavePersists ==
    [][ (Len(objs') = Len(objs) /\ objs' # objs) =>
            /\ \A id \in RoomIds :
                  /\ FoundState(objs', cache', files', id)
                        = FoundState(objs, cache, files, id)
                  /\ MemoryFoundState(objs', meeting_rooms', id)
                        = MemoryFoundState(objs, meeting_rooms, id)
            /\ FoundStates(objs', cache', files')
                  = FoundStates(objs, cache, files)
            /\ {objs'[ref] : ref \in Range(meeting_rooms') \ {0}}
                  = {objs[ref] : ref \in Range(meeting_rooms) \ {0}}
      ]_vars

\* thread t is inside a `with self._lock:` block of the repository
Inside(t) == pc[t] \notin {"idle", "acquire"}

\* C24: a thread is inside a cache or file access of the repository only
\* while it holds the lock, so no two threads are inside at once, and when
\* a method returns, its result, the cache and the files are what the
\* method gives when it runs alone from the state in which it got the lock:
\* the execution is the sequential one in the order of the lock
C24_OperationsHoldTheLock ==
    /\ \A t \in Threads : Inside(t) => lock = t
    /\ \A t, u \in Threads : (Inside(t) /\ Inside(u)) => t = u
    /\ \A t \in Threads :
          pc[t] = "release" =>
              Outcome(th[t].error, th[t].found, th[t].result, objs, cache,
                      files) = th[t].alone[1]

C24_Witness ==
    \E t, u \in Threads :
        /\ pc[t] = "release"
        /\ th[t].op = "find_all"
        /\ th[t].result # <<>>
        /\ pc[u] = "acquire"
        /\ th[u].op = "save"

\* the current calls of threads t and u were under way at the same time
Concurrent(t, u) ==
    \/ <<u, th[u].calls>> \in th[t].overlap
    \/ <<t, th[t].calls>> \in th[u].overlap

\* thread t has returned from a save and has called nothing since
Saved(t) == th[t].op = "save" /\ pc[t] = "idle"

\* C25: when two threads have saved rooms of different ids at the same time
\* through one repository, both calls succeeded, each room's file holds the
\* complete state of that room and no temporary file is left, and find_by_id
\* and find_all return each of the two rooms
C25_ConcurrentSavesOfDifferentIds ==
    \A t, u \in Threads :
        (/\ t # u
         /\ Saved(t)
         /\ Saved(u)
         /\ Concurrent(t, u)
         /\ objs[th[t].ref].id # objs[th[u].ref].id)
        => LET room == objs[th[t].ref]
           IN  /\ th[t].error = NoError
               /\ files.json[room.id] = JsonFile(model_dump(room))
               /\ files.tmp[room.id] = NoFile
               /\ LET r == find_by_id(objs, cache, files, room.id, FALSE,
                                      FALSE)
                  IN  /\ r.error = NoError
                      /\ r.found # <<>>
                      /\ r.objs[r.found[1]] = room
               /\ \A order \in Orders :
                     LET r == find_all(objs, cache, files, order, {}, {})
                     IN  /\ r.error = NoError
                         /\ room \in {r.objs[ref] : ref \in Range(r.result)}

C25_Witness ==
    \E t, u \in Threads :
        /\ t # u
        /\ Saved(t)
        /\ Saved(u)
        /\ Concurrent(t, u)
        /\ th[t].ref = 2
        /\ th[u].ref = 3
        /\ th[t].calls = 2
        /\ files.json["r1"] = JsonFile(model_dump(objs[2]))

\* C26: while a find_all is inside the repository, no save is between the
\* first write of its temporary file and the rename, so the listing holds no
\* temporary file and no partly written file; the rooms find_all returns
\* have different ids and each is in the state the last completed save of
\* its id wrote
C26_FindAllSeesOnlyCompleteFiles ==
    \A t \in Threads :
        (th[t].op = "find_all" /\ Inside(t))
        => /\ \A id \in RoomIds :
                 /\ files.tmp[id] = NoFile
                 /\ files.json[id].kind # "partial"
           /\ \A name \in Range(th[t].names) : name.kind # "tmp"
           /\ \A k \in 1..Len(th[t].result) :
                 LET room == objs[th[t].result[k]]
                 IN  /\ saved.json[room.id] = <<room>>
                     /\ \A j \in 1..Len(th[t].result) :
                           objs[th[t].result[j]].id = room.id => j = k

C26_Witness ==
    \E t, u \in Threads :
        /\ th[t].op = "find_all"
        /\ pc[t] = "release"
        /\ Len(th[t].result) = 1
        /\ th[t].result[1] > Len(CallerRooms)
        /\ th[u].op = "save"
        /\ pc[u] = "acquire"
        /\ Concurrent(t, u)

\* caller t has gone through find_by_id, book and save without an exception
Booked(t) ==
    /\ th[t].op = "booking"
    /\ pc[t] = "idle"
    /\ th[t].error = NoError
    /\ th[t].found # <<>>

\* the bookings of the room as its file holds it
Stored(id) == model_validate(files.json[id].doc[1]).room[1].bookings

\* C27: when two callers have run find_by_id, book and save on the same
\* room id at the same time through one repository, with slots that overlap,
\* and both book calls succeeded, the stored room holds the booking of one
\* of them (the one that saved last) and not the booking of the other
C27_LostUpdate ==
    \A t, u \in Threads :
        (t # u /\ Booked(t) /\ Booked(u) /\ Concurrent(t, u))
        => ~(/\ th[t].found[1] \in Range(Stored(CallerRoomId))
             /\ th[u].found[1] \in Range(Stored(CallerRoomId)))

\* the states of the rooms find_all of the in-memory repository returns
MemoryFoundStates(os, rooms) ==
    UNION { {os[ref] : ref \in Range(in_memory_find_all(rooms, order))}
            : order \in Orders }

\* C28: after any sequence of save, find_by_id, find_all and delete calls
\* made on both repositories alike, without I/O failures and from an empty
\* directory, the next call gives the same on both: save and delete return
\* without an exception, find_by_id returns a room in the same state or
\* nothing, and find_all returns rooms in the same set of states
C28_SameResultsInBothRepositories ==
    /\ \A ref \in 1..Len(objs) :
          save(objs, cache, files, ref, "none", FALSE).error = NoError
    /\ \A id \in RoomIds :
          /\ delete(cache, files, id, FALSE).error = NoError
          /\ find_by_id(objs, cache, files, id, FALSE, FALSE).error = NoError
          /\ FoundState(objs, cache, files, id)
                = MemoryFoundState(objs, meeting_rooms, id)
    /\ \A order \in Orders :
          find_all(objs, cache, files, order, {}, {}).error = NoError
    /\ FoundStates(objs, cache, files) = MemoryFoundStates(objs, meeting_rooms)

C28_Witness ==
    /\ RepoCalled("both", "find_all")
    /\ Len(repo_last.result) = 2
    /\ \E i \in 1..2 : Len(objs[repo_last.result[i]].bookings) = 3
    /\ repo_last.result = in_memory_find_all(meeting_rooms, <<"r2", "r1">>)
    /\ saved.json["r1"] # <<objs[cache["r1"]]>>

\* C29: the cache of the file-backed repository.  A successful save leaves
\* the saved object cached under its id and a failed save leaves the cache
\* as it was; find_by_id of a cached id returns the cached object and
\* touches neither the file nor the cache, whatever state the file is in and
\* even if it could not be read; find_by_id and find_all cache every room
\* they load and nothing else, so a load that fails or raises adds no entry;
\* delete leaves no entry for its id, and the other entries as they were.
C29_CacheFollowsSavesLoadsAndDeletes ==
    [][ LET call == repo_last'
            id == call.room_id
            returned(i) == \E k \in DOMAIN call.result :
                              /\ objs'[call.result[k]].id = i
                              /\ cache'[i] = call.result[k]
        IN  /\ \A i \in RoomIds :
                  cache[i] # 0 =>
                     LET r == find_by_id(objs, cache, files, i, TRUE, TRUE)
                     IN  /\ r.found = <<cache[i]>>
                         /\ ~r.loaded
                         /\ r.files = files
                         /\ r.cache = cache
            /\ call.repo = "json" =>
                  /\ (call.op = "save" /\ call.error = NoError) =>
                        cache' = [cache EXCEPT ![id] = call.ref]
                  /\ (call.op = "save" /\ call.error # NoError) =>
                        cache' = cache
                  /\ (call.op = "find_by_id" /\ cache[id] # 0) =>
                        /\ call.found = <<cache[id]>>
                        /\ ~call.loaded
                        /\ cache' = cache
                        /\ files' = files
                  /\ (call.op = "find_by_id" /\ cache[id] = 0) =>
                        IF call.error = NoError /\ call.found # <<>>
                        THEN cache' = [cache EXCEPT ![id] = call.found[1]]
                        ELSE cache' = cache
                  /\ call.op = "find_all" =>
                        \A i \in RoomIds :
                           /\ cache[i] # 0 => cache'[i] = cache[i]
                           /\ (cache[i] = 0 /\ cache'[i] # 0) => returned(i)
                           /\ (call.error = NoError
                                 /\ files.json[i].kind # "absent"
                                 /\ cache'[i] = 0) =>
                                 ~\E k \in DOMAIN call.result :
                                     objs'[call.result[k]].id = i
                  /\ call.op = "delete" =>
                        cache' = [cache EXCEPT ![id] = 0] ]_vars

\* a save of r1 has failed while r1 was not cached, after the file of r2 was
\* loaded and cached and a load of the damaged file of r1 had failed
C29_Witness ==
    /\ RepoCalled("json", "save")
    /\ repo_last.error # NoError
    /\ repo_last.room_id = "r1"
    /\ cache["r1"] = 0
    /\ cache["r2"] > Len(CallerRooms)
    /\ files.backup["r1"].kind = "garbage"

\* C30: when create_booking is called with a valid request while the
\* repository holds no main room, or a main room without a booking that
\* overlaps the requested slot, it raises nothing, passes to save exactly
\* one room, which holds a booking of the requested slot, booker and
\* attendee count, and returns a response with that booking's id, times,
\* booker and attendee count
C30_CreateBookingBooksAndSavesOnce ==
    LET slot == last.time_slot
        free == \/ repo_last.before = <<>>
                \/ ~SlotTaken(repo_last.before[1].bookings, slot)
    IN  (RepoCalled("service", "create_booking") /\ free) =>
            /\ repo_last.error = NoError
            /\ Len(repo_last.result) = 1
            /\ last.returned # <<>>
            /\ \E i \in DOMAIN objs[repo_last.result[1]].bookings :
                  LET b == objs[repo_last.result[1]].bookings[i]
                  IN  /\ b.time_slot = slot
                      /\ b.booker = last.booker
                      /\ b.attendees = last.attendees
                      /\ last.returned[1]
                            = BookingResponse(b.booking_id, slot.start_time,
                                              slot.end_time, last.booker,
                                              last.attendees)

\* C31: cancel_booking raises nothing exactly when the main room is stored
\* and holds a booking of the requested id; it has then passed one room to
\* save, the stored room without that booking; otherwise it raises
\* CancellationFailedError and passes no room to save
C31_CancelBookingSucceedsIffBooked ==
    LET held == /\ repo_last.before # <<>>
                /\ last.booking_id \in Ids(repo_last.before[1].bookings)
    IN  RepoCalled("service", "cancel_booking") =>
            IF held
            THEN /\ repo_last.error = NoError
                 /\ Len(repo_last.result) = 1
                 /\ objs[repo_last.result[1]].bookings
                       = remaining(repo_last.before[1].bookings,
                                   last.booking_id)
            ELSE /\ repo_last.error = CancellationFailedError
                 /\ repo_last.result = <<>>

\* ---------------------------------------------------------------- C32
\* the lifetime with which a service type is registered now
lifetime_of(service_type) == container.c.registrations[service_type].lifetime

\* two resolve calls of the same type that both returned, the first before
\* the second, with no registration of the type in between
SameType(i, j) ==
    /\ i < j
    /\ container.resolved[i].service_type = container.resolved[j].service_type

\* C32: whatever calls were made, two resolve calls of one service type
\* return the same instance if the type is a singleton, two different
\* instances if it is transient, and, if it is scoped, the same instance when
\* they were made on the same scope and different instances when they were
\* made on different scopes.
C32_InstanceIdentityFollowsLifetime ==
    \A i, j \in 1..Len(container.resolved) :
        SameType(i, j) =>
            LET a == container.resolved[i]
                b == container.resolved[j]
                l == lifetime_of(a.service_type)
            IN  /\ l = SINGLETON => a.instance = b.instance
                /\ l = TRANSIENT => a.instance # b.instance
                /\ l = SCOPED => (a.instance = b.instance <=> a.scope = b.scope)

\* a scoped type was resolved on two scopes and gave two instances
C32_Witness ==
    \E i, j \in 1..Len(container.resolved) :
        /\ SameType(i, j)
        /\ lifetime_of(container.resolved[i].service_type) = SCOPED
        /\ container.resolved[i].scope # container.resolved[j].scope
        /\ container.resolved[i].instance # container.resolved[j].instance

\* ---------------------------------------------------------------- C33
\* C33: a resolve call that returns gives an instance of the implementation
\* that was registered last for the service type, whatever was registered
\* or resolved before.
C33_ResolveFollowsTheLatestRegistration ==
    (container.last.op = "resolve" /\ container.last.status = "returned") =>
        container.c.instances[container.last.instance].implementation =
            container.c.registrations[container.last.service_type].implementation

\* ---------------------------------------------------------------- C38
\* the service types that the constructor of the implementation registered
\* for a type asks for, and all the types that resolving a set of types needs
DependsOn(c, service_type) ==
    IF c.registrations[service_type] = NoRegistration THEN {}
    ELSE LET p == parameters(c.registrations[service_type].implementation)
         IN  {p[i] : i \in 1..Len(p)}

RECURSIVE Needed(_, _)
Needed(c, types) ==
    LET more == types \cup UNION {DependsOn(c, s) : s \in types}
    IN  IF more = types THEN types ELSE Needed(c, more)

Cyclic(c, service_type) ==
    \E s \in Needed(c, {service_type}) : s \in Needed(c, DependsOn(c, s))

AllRegistered(c, service_type) ==
    \A s \in Needed(c, {service_type}) : c.registrations[s] # NoRegistration

\* every constructor parameter of the instance got an instance of the
\* implementation registered for its type
Injected(c, instance) ==
    LET o == c.instances[instance]
        p == parameters(o.implementation)
    IN  /\ Len(o.dependencies) = Len(p)
        /\ \A i \in 1..Len(p) :
               c.instances[o.dependencies[i]].implementation =
                   c.registrations[p[i]].implementation

\* a scoped type is among the needed ones: outside a scope it cannot be made
NeedsScope(c, service_type) ==
    \E s \in Needed(c, {service_type}) : c.registrations[s].lifetime = SCOPED

\* C38: a resolve call of a registered service type never blocks; if the
\* dependencies of the type are registered and form no cycle it returns an
\* instance with every dependency injected, whatever the lifetimes are
\* (a scoped type that is asked for outside a scope may be refused), and if
\* they form a cycle it raises DependencyInjectionError.
C38_ResolveTerminates ==
    LET l == container.last
        c == container.c
    IN  (l.op = "resolve" /\ c.registrations[l.service_type] # NoRegistration) =>
            /\ l.status # "blocked"
            /\ (AllRegistered(c, l.service_type) /\ ~Cyclic(c, l.service_type)) =>
                   \/ l.status = "returned" /\ Injected(c, l.instance)
                   \/ /\ NeedsScope(c, l.service_type)
                      /\ l.status = "raised" /\ l.error = RequiresScope
            /\ Cyclic(c, l.service_type) => l.status = "raised"

\* ---------------------------------------------------------------- C34
\* the calls of the operation that with_retry made, in order
Attempts == 1..retry.calls

\* every call that was made raised an exception that is retried
AllRetryable ==
    \A k \in Attempts :
        /\ retry.operation[k] # NoError
        /\ is_retryable(retry.operation[k], retry.retry_exceptions)

\* C34: with_retry calls the operation at most max_attempts times; it stops
\* at the first call that returns, and returns its value; if every call
\* raises a retryable exception it raises the last one after exactly
\* max_attempts calls; an exception that is not retryable propagates from
\* the call that raised it, and no further call is made.
C34_RetryAtMostMaxAttempts ==
    retry # NoRetryCall =>
        /\ retry.calls <= retry.max_attempts
        /\ \A k \in Attempts :
               retry.operation[k] = NoError =>
                   (k = retry.calls /\ retry.error = NoError /\ retry.by = k)
        /\ AllRetryable =>
               /\ retry.calls = retry.max_attempts
               /\ retry.by \in Attempts /\ retry.by = retry.calls
               /\ retry.error = retry.operation[retry.by]
        /\ \A k \in Attempts :
               ( /\ retry.operation[k] # NoError
                 /\ ~is_retryable(retry.operation[k], retry.retry_exceptions) ) =>
                   (k = retry.calls /\ retry.by = k /\ retry.error = retry.operation[k])

\* ---------------------------------------------------------------- C35
NoTwoOverlap(bks) ==
    \A i, j \in DOMAIN bks :
        i # j => ~overlaps_with(bks[i].time_slot, bks[j].time_slot)

\* C35: however the find_by_id, book and save calls of concurrent callers on
\* one room id interleave, the room in the file and the room that find_by_id
\* returns never hold two bookings whose time slots overlap.
C35_NoOverlapStoredOrReturned ==
    /\ files.json[CallerRoomId].kind = "json" =>
           NoTwoOverlap(Stored(CallerRoomId))
    /\ LET f == find_by_id(objs, cache, files, CallerRoomId, FALSE, FALSE)
       IN  (f.error = NoError /\ f.found # <<>>) =>
               NoTwoOverlap(f.objs[f.found[1]].bookings)

\* ---------------------------------------------------------------- C36
\* the room find_by_id("main-room") returns now holds a booking of the slot
\* and the booker of the last call
MainRoomHolds(slot, booker) ==
    LET f == find_by_id(objs, cache, files, CallerRoomId, FALSE, FALSE)
    IN  /\ f.error = NoError
        /\ f.found # <<>>
        /\ \E i \in DOMAIN f.objs[f.found[1]].bookings :
               /\ f.objs[f.found[1]].bookings[i].time_slot = slot
               /\ f.objs[f.found[1]].bookings[i].booker = booker

\* C36: after a create_booking that succeeded, find_by_id of the main room
\* returns a room that holds the booking; and a create_booking whose slot
\* overlaps a booking of the stored main room fails with
\* OverlappingBookingError.
C36_BookingsLandInTheMainRoom ==
    RepoCalled("service", "create_booking") =>
        /\ repo_last.error = NoError => MainRoomHolds(last.time_slot, last.booker)
        /\ ( /\ repo_last.before # <<>>
             /\ SlotTaken(repo_last.before[1].bookings, last.time_slot) ) =>
               repo_last.error = OverlappingBookingError

\* ---------------------------------------------------------------- C37
\* find_by_id of the main room returns now what was stored before the last
\* call: nothing, or a room with the same bookings
MainRoomAsBefore ==
    LET f == find_by_id(objs, cache, files, CallerRoomId, FALSE, FALSE)
    IN  /\ f.error = NoError
        /\ IF repo_last.before = <<>> THEN f.found = <<>>
           ELSE /\ f.found # <<>>
                /\ f.objs[f.found[1]].bookings = repo_last.before[1].bookings

SaveRaised(t) ==
    th[t].op = "save" /\ pc[t] = "idle" /\ th[t].error = StorageError

\* C39: a save that raises StorageError leaves the lock free: the thread
\* whose save has failed does not hold it, the lock is only ever held by a
\* thread inside a block, and every call that a thread has made, before or
\* after the failure, returns or raises in the end instead of waiting for
\* the lock for ever.
C39_FailedSaveReleasesTheLock ==
    /\ [](\A t \in Threads : SaveRaised(t) => lock # t)
    /\ [](lock # 0 => Inside(lock))
    /\ \A t \in Threads : (pc[t] # "idle") ~> (pc[t] = "idle")

\* the save of one thread has failed while the other thread was waiting for
\* the lock, and the call of the other thread has returned
C39_Witness ==
    \E t, u \in Threads :
        /\ t # u
        /\ SaveRaised(u)
        /\ <<u, th[u].calls>> \in th[t].overlap
        /\ pc[t] = "idle"
        /\ th[t].error = NoError
        /\ lock = 0

\* ---------------------------------------------------------------- C40
\* the call is a find_by_id of id that looked at the file, which exists and
\* could be read, and returned absent: the content of the file is corrupted
FoundCorrupted(call, id) ==
    /\ call.repo = "json" /\ call.op = "find_by_id" /\ call.room_id = id
    /\ cache[id] = 0
    /\ files.json[id] # NoFile
    /\ <<"read", id>> \notin call.faults
    /\ call.error = NoError
    /\ call.found = <<>>

\* the call is a save of a room of id that succeeded; then the file of the id
\* holds the saved room, the backup file is as it was, and find_by_id of the
\* id returns the saved room
SavedOver(call, id) ==
    (/\ call.repo = "json" /\ call.op = "save" /\ call.room_id = id
     /\ call.error = NoError) =>
        /\ files'.json[id] = JsonFile(model_dump(objs[call.ref]))
        /\ files'.backup[id] = files.backup[id]
        /\ LET f == find_by_id(objs', cache', files', id, FALSE, FALSE)
           IN  f.error = NoError /\ f.found = <<call.ref>>

====
